---- MODULE Spec2Model ----
(***************************************************************************)
(* InsightHub: the walk-forward forecast backtest of                       *)
(* utils/forecast_helper.py (ForecastHelper.rolling_forecast_accuracy) and *)
(* the inventory status table of utils/alert_helper.py                     *)
(* (AlertHelper.calculate_inventory_status).                               *)
(*                                                                         *)
(* Dates are day numbers.  A data frame is a sequence of rows (records).   *)
(* A float that is a quotient is kept as an unreduced fraction             *)
(* [num, den]; NaN is 0/0 and is equal to nothing, itself included.        *)
(***************************************************************************)
EXTENDS Integers, Sequences, FiniteSets, TLC

VARIABLES
    \* ---- rolling_forecast_accuracy ----
    forecast_method,   \* argument forecast_method
    window,            \* argument window
    horizon,           \* argument horizon
    df_ts,             \* argument df_ts: rows [ds, y] as the caller passed them
    df_ts_copy,        \* the cleaned, date-sorted copy (<<>> before the copy is made)
    pc,                \* position in the function: "start", "loop", "done"
    i,                 \* loop variable of the walk-forward loop
    all_actuals,       \* pooled actual values
    all_forecasts,     \* pooled predicted values
    n_calls,           \* how many times forecast_func was invoked
    last_call,         \* the arguments of its latest invocation, and the i of it
    trace,             \* one entry per loop iteration: i, called or not, its pairs
    last_window,       \* the latest iteration: its actuals, forecast, pairs, outcome
    skipped,           \* why iterations so far contributed nothing
    result,            \* the returned dict (NoResult until the function returns)
    \* ---- calculate_inventory_status ----
    product_current_stock_df,  \* argument: rows [product, current_stock]
    avg_daily_sales_data,      \* argument: rows [product, avg_daily_sales]
    critical_stock_days,       \* argument
    inv_pc,                    \* "call" before the call, "returned" after it
    inventory_data,            \* the returned rows
    stockout_risk_raw,         \* the column stockout_risk_days before lines 121-122
    \* ---- detect_sales_anomalies ----
    sales_data,                \* argument: the daily sales, oldest day first
    z_score_threshold,         \* argument, a fraction
    anom_pc,                   \* "call" before the call, "returned" after it
    anomalies_df,              \* the returned rows
    \* ---- identify_slow_moving_items ----
    self_df,                   \* self.df: rows [product, date, sales], by date
    slow_moving_sales_per_day, \* argument, in tenths of a unit like the sales
    slow_pc,                   \* "call" before the call, "returned" after it
    slow_moving_items,         \* the returned rows
    \* ---- filter_alerts ----
    all_alerts,                \* argument: the caller's list of alerts
    time_range,                \* argument: [given, value]; not given is None
    alert_type,                \* argument, likewise
    severity,                  \* argument, likewise
    status,                    \* argument, likewise
    search_query,              \* argument: [given, value], value a sequence of characters
    filt_pc,                   \* "call", then "returned" or "raised"
    latest_date,               \* latest_date of line 217 (NoStamp before it is set)
    filtered_alerts,           \* the returned list
    \* ---- the inventory planning functions ----
    plan_prev,                 \* the call before the latest one (NoPlanCall if none)
    plan_last,                 \* the latest call: its function, arguments, result
    \* ---- the credential store of auth.py ----
    users_file,                \* the file users.json: missing, or its text
    todo,                      \* per process: the calls it has yet to make
    done,                      \* per process: the calls it made, with what they returned
    auth_pc,                   \* per process: where it is in its call
    local_users,               \* per process: the dict `users` of its call
    loaded,                    \* per process: the dict as json.load gave it
    history,                   \* the loads and the steps of the saves so far, in order
    \* ---- preprocess_store_sales ----
    prep_df,                   \* argument df: what the caller passed
    prep_pc,                   \* "call", then "returned" or "raised"
    prep_out                   \* the returned frame, or the exception raised

rollVars == <<forecast_method, window, horizon, df_ts, df_ts_copy, pc, i,
              all_actuals, all_forecasts, n_calls, last_call, trace,
              last_window, skipped, result>>
invVars  == <<product_current_stock_df, avg_daily_sales_data,
              critical_stock_days, inv_pc, inventory_data,
              stockout_risk_raw>>
anomVars == <<sales_data, z_score_threshold, anom_pc, anomalies_df>>
slowVars == <<self_df, slow_moving_sales_per_day, slow_pc, slow_moving_items>>
filtVars == <<all_alerts, time_range, alert_type, severity, status,
              search_query, filt_pc, latest_date, filtered_alerts>>
planVars == <<plan_prev, plan_last>>
authVars == <<users_file, todo, done, auth_pc, local_users, loaded,
              history>>
prepVars == <<prep_df, prep_pc, prep_out>>
vars     == <<rollVars, invVars, anomVars, slowVars, filtVars, planVars,
              authVars, prepVars>>

\* the argument that was not passed (None)
None == [given |-> FALSE, value |-> ""]

NoQuery == [given |-> FALSE, value |-> <<>>]

NoStamp == [date |-> 0, time |-> 0]

\* no call of detect_sales_anomalies in this run
AnomIdle ==
    /\ sales_data = <<>>
    /\ z_score_threshold = [num |-> 2, den |-> 1]
    /\ anom_pc = "idle"
    /\ anomalies_df = <<>>

\* no call of identify_slow_moving_items in this run
SlowIdle ==
    /\ self_df = <<>>
    /\ slow_moving_sales_per_day = 10
    /\ slow_pc = "idle"
    /\ slow_moving_items = <<>>

\* no call of filter_alerts in this run
FiltIdle ==
    /\ all_alerts = <<>>
    /\ time_range = None
    /\ alert_type = None
    /\ severity = None
    /\ status = None
    /\ search_query = NoQuery
    /\ filt_pc = "idle"
    /\ latest_date = NoStamp
    /\ filtered_alerts = <<>>

\* no call of a planning function so far
NoPlanCall == [fn |-> "none"]

\* no call of the inventory planning functions in this run
PlanIdle ==
    /\ plan_prev = NoPlanCall
    /\ plan_last = NoPlanCall

\* the processes (sessions) that use the credential store
Procs == {1, 2}

\* the dict with no key
EmptyUsers == [u \in {} |-> ""]

\* users.json does not exist
MissingFile == [exists |-> FALSE, size |-> 0, valid |-> FALSE, users |-> EmptyUsers]

\* no call of auth.py in this run
AuthIdle ==
    /\ users_file = MissingFile
    /\ todo = [p \in Procs |-> <<>>]
    /\ done = [p \in Procs |-> <<>>]
    /\ auth_pc = [p \in Procs |-> "idle"]
    /\ local_users = [p \in Procs |-> EmptyUsers]
    /\ loaded = [p \in Procs |-> EmptyUsers]
    /\ history = <<>>

\* the frame with no column and no row
NoFrame == [columns |-> <<>>, rows |-> <<>>]

\* no call of preprocess_store_sales in this run
PrepIdle ==
    /\ prep_df = [kind |-> "DataFrame", columns |-> <<>>, rows |-> <<>>]
    /\ prep_pc = "idle"
    /\ prep_out = [raised |-> "", frame |-> NoFrame]

(***************************************************************************)
(* Bounds of the model                                                     *)
(***************************************************************************)
MaxLen     == 4   \* longest input series with caller-chosen window/horizon
MaxDate    == 3   \* latest day number of such a series
MaxWindow  == 2   \* largest caller-chosen window
MaxHorizon == 2   \* largest caller-chosen horizon
MaxShift   == 1   \* latest first predicted day, counted from the last training day
MaxExtra   == 3   \* with the default window/horizon: rows beyond window + horizon
MaxStockRows == 2 \* most rows of product_current_stock_df
MaxSalesRows == 2 \* most rows of avg_daily_sales_data
MaxSeriesLen == 8 \* most days of sales_data
MaxRecords == 3   \* most rows of self.df
MaxAlerts == 2    \* most alerts of all_alerts (the Weekly example has four)

(***************************************************************************)
(* Program constants                                                       *)
(***************************************************************************)
DefaultWindow  == 60
DefaultHorizon == 7
RollingDays    == 7   \* alert_helper.py line 143: min(7, len(sales_data))
MinSeriesLen   == 2   \* alert_helper.py line 138: len(sales_data) < 2
WeekDays       == 7   \* alert_helper.py line 223: timedelta(weeks=1)

Methods == {"prophet", "arima", "exp_smoothing"}

\* the method names the model passes: one the function knows, one it does not
MethodInputs == {"prophet", "linear"}

ErrInvalidMethod == "Invalid forecast method specified."
ErrNotEnough     == "Not enough data for rolling accuracy."
ErrNoForecasts   == "No valid forecasts generated for accuracy calculation."

(***************************************************************************)
(* Numbers                                                                 *)
(***************************************************************************)
NaN == [num |-> 0, den |-> 0]

\* np.inf
Inf == [num |-> 1, den |-> 0]

IsNaN(x) == x.den = 0 /\ x.num = 0

IsInf(x) == x.den = 0 /\ x.num > 0

IsFinite(x) == x.den > 0

\* a whole number as a fraction
Rat(n) == [num |-> n, den |-> 1]

\* a <= b on floats: false as soon as one side is NaN
Leq(a, b) ==
    /\ ~IsNaN(a)
    /\ ~IsNaN(b)
    /\ \/ IsInf(b)
       \/ IsFinite(a) /\ IsFinite(b) /\ a.num * b.den <= b.num * a.den

\* round(1): to the nearest tenth, a tie to the even tenth; NaN stays NaN
Round1(x) ==
    IF ~IsFinite(x) THEN x
    ELSE LET n     == 10 * x.num
             floor == n \div x.den
             rest  == n - floor * x.den
             tenth == IF 2 * rest < x.den THEN floor
                      ELSE IF 2 * rest > x.den THEN floor + 1
                      ELSE IF floor % 2 = 0 THEN floor ELSE floor + 1
         IN  [num |-> tenth, den |-> 10]

Abs(x) == IF x < 0 THEN -x ELSE x

Max2(a, b) == LET x == a
                  y == b
              IN  IF x >= y THEN x ELSE y

\* equality of two floats (NaN equals nothing)
RatEq(a, b) == /\ ~IsNaN(a)
               /\ ~IsNaN(b)
               /\ a.num * b.den = b.num * a.den
               /\ IsFinite(a) = IsFinite(b)

RECURSIVE SumAbsDiff(_, _, _, _)
\* sum of |y_true[k] - y_pred[k]| for k in lo..hi, halving the range
SumAbsDiff(y_true, y_pred, lo, hi) ==
    IF lo > hi THEN 0
    ELSE IF lo = hi THEN Abs(y_true[lo] - y_pred[lo])
    ELSE LET mid == (lo + hi) \div 2
         IN  SumAbsDiff(y_true, y_pred, lo, mid)
             + SumAbsDiff(y_true, y_pred, mid + 1, hi)

RECURSIVE SumDiff(_, _, _, _)
\* sum of y_true[k] - y_pred[k] for k in lo..hi
SumDiff(y_true, y_pred, lo, hi) ==
    IF lo > hi THEN 0
    ELSE IF lo = hi THEN y_true[lo] - y_pred[lo]
    ELSE LET mid == (lo + hi) \div 2
         IN  SumDiff(y_true, y_pred, lo, mid)
             + SumDiff(y_true, y_pred, mid + 1, hi)

\* the mean error without np.abs: the signed mean
mean_absolute_error_custom_Signed(y_true, y_pred) ==
    [num |-> SumDiff(y_true, y_pred, 1, Len(y_true)), den |-> Len(y_true)]

\* np.mean(np.abs(y_true - y_pred)); the mean of no element is NaN
mean_absolute_error_custom(y_true, y_pred) ==
    [num |-> SumAbsDiff(y_true, y_pred, 1, Len(y_true)), den |-> Len(y_true)]

\* np.mean(np.abs((y_true - y_pred) / np.maximum(y_true, 1e-8))) * 100: the
\* terms of the mean and the factor.  y is a whole number here, so the
\* denominator max(y, 1e-8) is y itself when y >= 1 and the floor 1e-8 otherwise
mean_absolute_percentage_error_custom(y_true, y_pred) ==
    [terms |-> [k \in 1..Len(y_true) |->
                   [num |-> Abs(y_true[k] - y_pred[k]),
                    den |-> IF y_true[k] >= 1 THEN y_true[k] ELSE 1,
                    den_unit |-> IF y_true[k] >= 1 THEN "1" ELSE "1e-8"]],
     count |-> Len(y_true),
     times |-> 100]

(***************************************************************************)
(* Data frames                                                             *)
(***************************************************************************)
\* a non-numeric y cell of the input
NotNumeric == [numeric |-> FALSE, value |-> 0]

Numeric(v) == [numeric |-> TRUE, value |-> v]

\* pd.to_numeric(cell, errors='coerce').fillna(0)
ToNumericFillZero(cell) == IF cell.numeric THEN cell.value ELSE 0

RECURSIVE MaxDsIn(_, _, _)
\* the largest ds of rows lo..hi of df, halving the range
MaxDsIn(df, lo, hi) ==
    IF lo = hi THEN df[lo].ds
    ELSE LET mid == (lo + hi) \div 2
         IN  Max2(MaxDsIn(df, lo, mid), MaxDsIn(df, mid + 1, hi))

RECURSIVE MinDsIn(_, _, _)
MinDsIn(df, lo, hi) ==
    IF lo = hi THEN df[lo].ds
    ELSE LET mid   == (lo + hi) \div 2
             left  == MinDsIn(df, lo, mid)
             right == MinDsIn(df, mid + 1, hi)
         IN  IF left <= right THEN left ELSE right

\* df['ds'].max() of a frame with at least one row
MaxDs(df) == MaxDsIn(df, 1, Len(df))

MinDs(df) == MinDsIn(df, 1, Len(df))

\* df[(df['ds'] >= lo) & (df['ds'] <= hi)], row order kept
SelectRows(df, lo, hi) ==
    LET first == lo
        last  == hi
    IN  SelectSeq(df, LAMBDA r : r.ds >= first /\ r.ds <= last)

RECURSIVE Orderings(_, _)
\* every ordering of the rows df[k], k \in S
Orderings(df, S) ==
    IF S = {} THEN {<<>>}
    ELSE UNION {{<<df[k]>> \o t : t \in Orderings(df, S \ {k})} : k \in S}

RECURSIVE SortedArrangements(_, _, _)
\* every ordering of the rows of df dated lo..hi that is ascending in ds: the
\* default sort kind of sort_values is not stable, so rows of equal date may
\* come out in any order
SortedArrangements(df, lo, hi) ==
    IF lo > hi THEN {<<>>}
    ELSE IF lo = hi THEN Orderings(df, {k \in 1..Len(df) : df[k].ds = lo})
    ELSE LET mid == (lo + hi) \div 2
         IN  {a \o b : a \in SortedArrangements(df, lo, mid),
                       b \in SortedArrangements(df, mid + 1, hi)}

\* lines 190-193: copy, to_datetime, to_numeric + fillna(0), sort_values('ds')
CleanSeries(df) ==
    LET typed == [k \in 1..Len(df) |->
                     [ds |-> df[k].ds, y |-> ToNumericFillZero(df[k].y)]]
    IN  IF df = <<>> THEN {<<>>}
        ELSE SortedArrangements(typed, MinDs(typed), MaxDs(typed))

\* df.iloc[a : b] (0-based, b exclusive), clipped to the frame like iloc
ILoc(df, a, b) ==
    LET hi == IF b > Len(df) THEN Len(df) ELSE b
    IN  IF a >= hi THEN <<>> ELSE SubSeq(df, a + 1, hi)

RECURSIVE MergeRow(_, _)
\* the pairs one actual row makes with the forecast rows of the same date
MergeRow(a, forecast_df) ==
    IF forecast_df = <<>> THEN <<>>
    ELSE (IF Head(forecast_df).date = a.ds
          THEN <<[ds |-> a.ds, y |-> a.y, yhat |-> Head(forecast_df).yhat]>>
          ELSE <<>>)
         \o MergeRow(a, Tail(forecast_df))

RECURSIVE MergeInner(_, _)
\* pd.merge(actual_values_df, forecast_df, left_on='ds', right_on='date',
\*          how='inner'): left order kept
MergeInner(actual_values_df, forecast_df) ==
    IF actual_values_df = <<>> THEN <<>>
    ELSE MergeRow(Head(actual_values_df), forecast_df)
         \o MergeInner(Tail(actual_values_df), forecast_df)

Column(df, f) == [k \in 1..Len(df) |-> df[k][f]]

(***************************************************************************)
(* The forecast function: a library call.  It raises, or returns a frame   *)
(* of consecutive days [date, yhat] that starts on the last training day,  *)
(* the day after it, or later, and holds forecast_days rows or one fewer   *)
(* (none at all is the empty frame the three forecasters return on         *)
(* failure).  yhat is the last training value (a persistence forecast).    *)
(***************************************************************************)
ForecastFrame(train_df, first, n) ==
    [k \in 1..n |-> [date |-> first + k - 1, yhat |-> train_df[Len(train_df)].y]]

ForecastOutcomes(train_df, forecast_days) ==
    LET last == MaxDs(train_df)
    IN  {[kind |-> "raise", df |-> <<>>]} \cup
        {[kind |-> "frame", df |-> ForecastFrame(train_df, last + s, n)] :
            s \in 0..MaxShift, n \in {0, forecast_days - 1, forecast_days}}

(***************************************************************************)
(* rolling_forecast_accuracy                                               *)
(***************************************************************************)
NoResult == [pending |-> TRUE]

NoCall == [i |-> -1, train |-> <<>>, forecast_days |-> 0]

NoWindow == [i |-> -1, kind |-> "none", actuals |-> <<>>, forecast |-> <<>>,
             pairs |-> <<>>]

ErrorResult(msg) == [rolling_mae |-> NaN, rolling_mape |-> NaN, error |-> msg]

\* the length check with <= in place of <
NotEnoughData_OffByOne(df) == Len(df) <= window + horizon

\* line 195: len(df_ts_copy) < (window + horizon)
NotEnoughData(df) == Len(df) < window + horizon

\* the range of the loop without its + 1
NumWindows_OneShort(df) == Max2(Len(df) - window - horizon, 0)

\* line 198: range(len(df_ts_copy) - window - horizon + 1)
NumWindows(df) == Max2(Len(df) - window - horizon + 1, 0)

\* the training slice started one row late
TrainSlice_Shifted(df, k) == ILoc(df, k + 1, k + 1 + window)

\* line 199: df_ts_copy.iloc[i : i + window]
TrainSlice(df, k) == ILoc(df, k, k + window)

\* an evaluation period that starts on the last training day
ActualPeriodStart_SameDay(train_df) == MaxDs(train_df)

\* line 200
ActualPeriodStart(train_df) == MaxDs(train_df) + 1

\* an evaluation period of horizon + 1 days
ActualPeriodEnd_OneMore(train_df) == ActualPeriodStart(train_df) + horizon

\* line 201
ActualPeriodEnd(train_df) == ActualPeriodStart(train_df) + (horizon - 1)

\* line 203
ActualValues(df, train_df) ==
    SelectRows(df, ActualPeriodStart(train_df), ActualPeriodEnd(train_df))

\* the pool assigned instead of extended
ExtendPool_Assign(pool, merged_df, column) == Column(merged_df, column)

\* lines 218-219: all_actuals.extend(...), all_forecasts.extend(...)
ExtendPool(pool, merged_df, column) == pool \o Column(merged_df, column)

\* the no-pair case reported with the label of the length check
FinalResult_SameLabel(actuals, forecasts) ==
    IF actuals = <<>>
    THEN ErrorResult(ErrNotEnough)
    ELSE [rolling_mae |-> mean_absolute_error_custom(actuals, forecasts),
          rolling_mape |->
              mean_absolute_percentage_error_custom(actuals, forecasts)]

\* lines 225-231: the returned dict once the loop has ended
FinalResult(actuals, forecasts) ==
    IF actuals = <<>>
    THEN ErrorResult(ErrNoForecasts)
    ELSE [rolling_mae |-> mean_absolute_error_custom(actuals, forecasts),
          rolling_mape |->
              mean_absolute_percentage_error_custom(actuals, forecasts)]

\* lines 177-185: an unknown method name returns at once
RejectMethod ==
    /\ pc = "start"
    /\ forecast_method \notin Methods
    /\ result' = ErrorResult(ErrInvalidMethod)
    /\ pc' = "done"
    /\ UNCHANGED <<forecast_method, window, horizon, df_ts, df_ts_copy, i,
                   all_actuals, all_forecasts, n_calls, last_call, trace,
                   last_window, skipped>>
    /\ UNCHANGED <<invVars, anomVars, slowVars, filtVars, planVars, authVars,
                   prepVars>>

\* lines 187-196: the pools, the cleaned copy, the length check
Prepare ==
    /\ pc = "start"
    /\ forecast_method \in Methods
    /\ \E sorted \in CleanSeries(df_ts) :
          /\ df_ts_copy' = sorted
          /\ IF NotEnoughData(sorted)
             THEN /\ result' = ErrorResult(ErrNotEnough)
                  /\ pc' = "done"
             ELSE /\ result' = result
                  /\ pc' = "loop"
    /\ all_actuals' = <<>>
    /\ all_forecasts' = <<>>
    /\ i' = 0
    /\ UNCHANGED <<forecast_method, window, horizon, df_ts, n_calls, last_call,
                   trace, last_window, skipped>>
    /\ UNCHANGED <<invVars, anomVars, slowVars, filtVars, planVars, authVars,
                   prepVars>>

\* lines 198-206: an iteration whose evaluation period holds no row
WindowNoActuals ==
    /\ pc = "loop"
    /\ i < NumWindows(df_ts_copy)
    /\ LET train_df         == TrainSlice(df_ts_copy, i)
           actual_values_df == ActualValues(df_ts_copy, train_df)
       IN  /\ actual_values_df = <<>>
           /\ last_window' = [i |-> i, kind |-> "no_actuals", actuals |-> <<>>,
                              forecast |-> <<>>, pairs |-> <<>>]
    /\ trace' = Append(trace, [i |-> i, called |-> FALSE, pairs |-> <<>>])
    /\ skipped' = skipped \cup {"no_actuals"}
    /\ i' = i + 1
    /\ UNCHANGED <<forecast_method, window, horizon, df_ts, df_ts_copy, pc,
                   all_actuals, all_forecasts, n_calls, last_call, result>>
    /\ UNCHANGED <<invVars, anomVars, slowVars, filtVars, planVars, authVars,
                   prepVars>>

\* lines 198-223: an iteration that calls the forecast function
WindowForecast ==
    /\ pc = "loop"
    /\ i < NumWindows(df_ts_copy)
    /\ LET train_df         == TrainSlice(df_ts_copy, i)
           actual_values_df == ActualValues(df_ts_copy, train_df)
       IN  /\ actual_values_df # <<>>
           /\ last_call' = [i |-> i, train |-> train_df,
                            forecast_days |-> horizon]
           /\ \E out \in ForecastOutcomes(train_df, horizon) :
                 LET merged_df == MergeInner(actual_values_df, out.df)
                     Skip(kind) ==
                         /\ last_window' = [i |-> i, kind |-> kind,
                                            actuals |-> actual_values_df,
                                            forecast |-> out.df, pairs |-> <<>>]
                         /\ trace' = Append(trace, [i |-> i, called |-> TRUE,
                                                    pairs |-> <<>>])
                         /\ skipped' = skipped \cup {kind}
                         /\ UNCHANGED <<all_actuals, all_forecasts>>
                 IN  \/ /\ out.kind = "raise"
                        /\ Skip("raised")
                     \/ /\ out.kind = "frame"
                        /\ out.df = <<>>
                        /\ Skip("empty_forecast")
                     \/ /\ out.kind = "frame"
                        /\ out.df # <<>>
                        /\ merged_df = <<>>
                        /\ Skip("no_match")
                     \/ /\ out.kind = "frame"
                        /\ out.df # <<>>
                        /\ merged_df # <<>>
                        /\ last_window' = [i |-> i, kind |-> "merged",
                                           actuals |-> actual_values_df,
                                           forecast |-> out.df,
                                           pairs |-> merged_df]
                        /\ trace' = Append(trace, [i |-> i, called |-> TRUE,
                                                   pairs |-> merged_df])
                        /\ all_actuals' =
                               ExtendPool(all_actuals, merged_df, "y")
                        /\ all_forecasts' =
                               ExtendPool(all_forecasts, merged_df, "yhat")
                        /\ UNCHANGED skipped
    /\ n_calls' = n_calls + 1
    /\ i' = i + 1
    /\ UNCHANGED <<forecast_method, window, horizon, df_ts, df_ts_copy, pc,
                   result>>
    /\ UNCHANGED <<invVars, anomVars, slowVars, filtVars, planVars, authVars,
                   prepVars>>

\* lines 225-231: after the loop
Finish ==
    /\ pc = "loop"
    /\ i >= NumWindows(df_ts_copy)
    /\ result' = FinalResult(all_actuals, all_forecasts)
    /\ pc' = "done"
    /\ UNCHANGED <<forecast_method, window, horizon, df_ts, df_ts_copy, i,
                   all_actuals, all_forecasts, n_calls, last_call, trace,
                   last_window, skipped>>
    /\ UNCHANGED <<invVars, anomVars, slowVars, filtVars, planVars, authVars,
                   prepVars>>

(***************************************************************************)
(* The inputs of rolling_forecast_accuracy                                 *)
(***************************************************************************)
\* the y cell of the k-th input row: the first is not a number
RowY(k) == IF k = 1 THEN NotNumeric ELSE Numeric(k)

\* the rows of the given dates, oldest first or newest first
InputFrame(dates, newest_first) ==
    LET n == Len(dates)
    IN  [k \in 1..n |->
            [ds |-> IF newest_first THEN dates[n + 1 - k] ELSE dates[k],
             y  |-> RowY(k)]]

AscendingDates(n) ==
    {d \in [1..n -> 1..MaxDate] : \A k \in 1..(n - 1) : d[k] <= d[k + 1]}

\* n consecutive days; with gaps, every day after the first DefaultWindow
\* rows is followed by DefaultHorizon days without a row
DailyDates(n, gaps) ==
    [k \in 1..n |-> IF gaps /\ k > DefaultWindow
                    THEN DefaultWindow + (k - DefaultWindow) * (DefaultHorizon + 1)
                    ELSE k]

\* with the default window and horizon: one row too few, just enough rows,
\* and MaxExtra rows more than enough
DefaultLens == {DefaultWindow + DefaultHorizon - 1,
                DefaultWindow + DefaultHorizon,
                DefaultWindow + DefaultHorizon + MaxExtra}

InvIdle ==
    /\ product_current_stock_df = <<>>
    /\ avg_daily_sales_data = <<>>
    /\ critical_stock_days = 0
    /\ inv_pc = "idle"
    /\ inventory_data = <<>>
    /\ stockout_risk_raw = <<>>

RollEntry ==
    /\ forecast_method \in MethodInputs
    /\ df_ts_copy = <<>>
    /\ pc = "start"
    /\ i = 0
    /\ all_actuals = <<>>
    /\ all_forecasts = <<>>
    /\ n_calls = 0
    /\ last_call = NoCall
    /\ trace = <<>>
    /\ last_window = NoWindow
    /\ skipped = {}
    /\ result = NoResult

\* a call with a window and a horizon the caller chose
InitRoll ==
    /\ window \in 1..MaxWindow
    /\ horizon \in 1..MaxHorizon
    /\ \E n \in 0..MaxLen : \E dates \in AscendingDates(n) :
          \E newest_first \in BOOLEAN :
             df_ts = InputFrame(dates, newest_first)
    /\ RollEntry
    /\ InvIdle
    /\ AnomIdle
    /\ SlowIdle
    /\ FiltIdle
    /\ PlanIdle
    /\ AuthIdle
    /\ PrepIdle

\* a call with the default window and horizon (line 163)
InitDefault ==
    /\ window = DefaultWindow
    /\ horizon = DefaultHorizon
    /\ \E n \in DefaultLens : \E gaps \in BOOLEAN :
          df_ts = InputFrame(DailyDates(n, gaps), FALSE)
    /\ RollEntry
    /\ InvIdle
    /\ AnomIdle
    /\ SlowIdle
    /\ FiltIdle
    /\ PlanIdle
    /\ AuthIdle
    /\ PrepIdle

NextRoll ==
    \/ RejectMethod
    \/ Prepare
    \/ WindowNoActuals
    \/ WindowForecast
    \/ Finish

SpecRoll == InitRoll /\ [][NextRoll]_vars

SpecDefault == InitDefault /\ [][NextRoll]_vars

(***************************************************************************)
(* Properties of rolling_forecast_accuracy                                 *)
(***************************************************************************)
\* the function has returned, and it got as far as cleaning the series
ReturnedCleaned == pc = "done" /\ forecast_method \in Methods

HasError == "error" \in DOMAIN result

\* the windows the loop has gone through are 0, 1, 2, ... in this order
VisitedInOrder == \A k \in 1..Len(trace) : trace[k].i = k - 1

CalledWindows == {k \in 1..Len(trace) : trace[k].called}

\* the last date of the training slice of the window with start index k
LastTrainDate(k) == df_ts_copy[k + window].ds

\* a row of the series lies in the horizon days after the training slice of
\* the window with start index k
HasActuals(k) ==
    \E r \in 1..Len(df_ts_copy) :
        /\ df_ts_copy[r].ds >= LastTrainDate(k) + 1
        /\ df_ts_copy[r].ds <= LastTrainDate(k) + horizon

\* C1: a cleaned series of fewer than window + horizon points makes the
\* function return the insufficient-data error without ever invoking the
\* forecast function; a series of at least window + horizon points never
\* gets that error.
C1_InsufficientData ==
    ReturnedCleaned =>
        /\ Len(df_ts_copy) = Len(df_ts)
        /\ Len(df_ts_copy) < window + horizon =>
              /\ HasError
              /\ result.error = ErrNotEnough
              /\ n_calls = 0
              /\ trace = <<>>
        /\ Len(df_ts_copy) >= window + horizon =>
              ~(HasError /\ result.error = ErrNotEnough)

C1_Witness ==
    /\ ReturnedCleaned
    /\ Len(df_ts_copy) = window + horizon - 1
    /\ HasError
    /\ result.error = ErrNotEnough
    /\ n_calls = 0

\* C2 as claimed: on a series of n >= window + horizon points the loop
\* visits i = 0 .. n - window - horizon in order and the forecast function
\* is invoked once per window, with the rows i .. i + window - 1 and
\* forecast_days = horizon.
C2_InvokedOncePerWindow ==
    (ReturnedCleaned /\ Len(df_ts_copy) >= window + horizon) =>
        /\ VisitedInOrder
        /\ Len(trace) = Len(df_ts_copy) - window - horizon + 1
        /\ n_calls = Len(trace)
        /\ \A k \in 1..Len(trace) : trace[k].called

\* C2 as amended: the loop visits i = 0 .. n - window - horizon in order,
\* the series is in ascending date order, and the forecast function is
\* invoked exactly once, with the rows i .. i + window - 1 and forecast_days
\* = horizon, for each window whose evaluation period holds a row of the
\* series, and not at all for a window whose evaluation period holds none.
C2_WalkForward ==
    (pc \in {"loop", "done"} /\ forecast_method \in Methods
        /\ Len(df_ts_copy) >= window + horizon) =>
        /\ \A k \in 1..(Len(df_ts_copy) - 1) :
              df_ts_copy[k].ds <= df_ts_copy[k + 1].ds
        /\ VisitedInOrder
        /\ Len(trace) = i
        /\ i <= Len(df_ts_copy) - window - horizon + 1
        /\ pc = "done" => Len(trace) = Len(df_ts_copy) - window - horizon + 1
        /\ n_calls = Cardinality(CalledWindows)
        /\ \A k \in 1..Len(trace) : trace[k].called <=> HasActuals(k - 1)
        /\ n_calls > 0 =>
              /\ last_call.i + 1 \in CalledWindows
              /\ \A k \in CalledWindows : k <= last_call.i + 1
              /\ last_call.train =
                     SubSeq(df_ts_copy, last_call.i + 1, last_call.i + window)
              /\ last_call.forecast_days = horizon

C2_Witness ==
    /\ ReturnedCleaned
    /\ Len(trace) >= 2
    /\ \E k \in 1..Len(trace) : trace[k].called
    /\ \E k \in 1..Len(trace) : ~trace[k].called
    /\ last_call.train = SubSeq(df_ts_copy, last_call.i + 1, last_call.i + window)

\* C3 as claimed: with window = 60 and horizon = 7 a 70-point series runs
\* exactly 1 window and a 66-point series returns the insufficient-data
\* error.
C3_SeventyPointsOneWindow ==
    (ReturnedCleaned /\ window = 60 /\ horizon = 7) =>
        /\ Len(df_ts_copy) = 70 => Len(trace) = 1
        /\ Len(df_ts_copy) = 66 => HasError /\ result.error = ErrNotEnough

\* C3 as amended: with window = 60 and horizon = 7 a series of 67 points
\* (exactly window + horizon) runs exactly 1 window, a series of 70 points
\* runs exactly 4 windows (n points run n - 66), and a series of 66 points
\* returns the insufficient-data error.
C3_DefaultWindows ==
    (ReturnedCleaned /\ window = 60 /\ horizon = 7) =>
        /\ Len(df_ts_copy) = 67 => Len(trace) = 1 /\ trace[1].i = 0
        /\ Len(df_ts_copy) = 70 => Len(trace) = 4
        /\ Len(df_ts_copy) >= 67 => Len(trace) = Len(df_ts_copy) - 66
        /\ Len(df_ts_copy) = 66 =>
              /\ HasError
              /\ result.error = ErrNotEnough
              /\ trace = <<>>

C3_Witness ==
    /\ ReturnedCleaned
    /\ window = 60
    /\ horizon = 7
    /\ Len(df_ts_copy) = 70
    /\ Len(trace) = 4
    /\ n_calls = 4

RECURSIVE PairsUpTo(_)
\* the pairs of the first k windows gone through, in order
PairsUpTo(k) == IF k = 0 THEN <<>> ELSE PairsUpTo(k - 1) \o trace[k].pairs

PooledPairs == PairsUpTo(Len(trace))

RECURSIVE SumAbsError(_)
\* the sum of |y - yhat| over a sequence of pairs
SumAbsError(pairs) ==
    IF pairs = <<>> THEN 0
    ELSE Abs(Head(pairs).y - Head(pairs).yhat) + SumAbsError(Tail(pairs))

SkipKinds == {"raised", "empty_forecast", "no_actuals"}

\* C4: a window for which the forecast function raises or returns an empty
\* forecast, or whose evaluation period holds no observation, contributes
\* no pair and does not end the loop: every window is gone through, the
\* pools are the pairs of the other windows alone, and the call returns
\* metrics (no error) as soon as one window yields a pair.
C4_FailureIsolation ==
    (pc \in {"loop", "done"} /\ forecast_method \in Methods
        /\ Len(df_ts_copy) >= window + horizon) =>
        /\ last_window.kind \in SkipKinds =>
              /\ last_window.pairs = <<>>
              /\ trace[Len(trace)].i = last_window.i
              /\ trace[Len(trace)].pairs = <<>>
              /\ pc = "loop" \/ Len(trace) = Len(df_ts_copy) - window - horizon + 1
        /\ \A k \in 1..Len(trace) : ~trace[k].called => trace[k].pairs = <<>>
        /\ all_actuals = Column(PooledPairs, "y")
        /\ all_forecasts = Column(PooledPairs, "yhat")
        /\ pc = "done" =>
              /\ Len(trace) = Len(df_ts_copy) - window - horizon + 1
              /\ PooledPairs # <<>> =>
                    /\ ~HasError
                    /\ RatEq(result.rolling_mae,
                             [num |-> SumAbsError(PooledPairs),
                              den |-> Len(PooledPairs)])

C4_Witness ==
    /\ ReturnedCleaned
    /\ skipped \cap {"raised", "empty_forecast"} # {}
    /\ "no_actuals" \in skipped
    /\ \E k \in 1..Len(trace) : trace[k].pairs # <<>>
    /\ trace[Len(trace)].pairs = <<>>
    /\ ~HasError

\* the windows that contributed a pair
ScoringWindows == {k \in 1..Len(trace) : trace[k].pairs # <<>>}

RECURSIVE SumWindowMae(_, _)
\* the sum of the per-window MAEs of the windows of S, as a fraction
SumWindowMae(S, acc) ==
    IF S = {} THEN acc
    ELSE LET k == CHOOSE x \in S : TRUE
             n == SumAbsError(trace[k].pairs)
             d == Len(trace[k].pairs)
         IN  SumWindowMae(S \ {k}, [num |-> acc.num * d + n * acc.den,
                                    den |-> acc.den * d])

\* the mean of the per-window MAEs
MeanOfWindowMaes ==
    LET total == SumWindowMae(ScoringWindows, Rat(0))
    IN  [num |-> total.num, den |-> total.den * Cardinality(ScoringWindows)]

\* C5: the reported MAE is the sum of |actual - predicted| over the pairs
\* pooled from every window, divided by the number of pooled pairs, so each
\* pair has equal weight whatever the number of pairs of its window (it is
\* not the mean of the per-window MAEs).
C5_PooledMae ==
    (ReturnedCleaned /\ ~HasError) =>
        /\ PooledPairs # <<>>
        /\ result.rolling_mae.num = SumAbsError(PooledPairs)
        /\ result.rolling_mae.den = Len(PooledPairs)

C5_Witness ==
    /\ ReturnedCleaned
    /\ ~HasError
    /\ \E j, k \in ScoringWindows : Len(trace[j].pairs) # Len(trace[k].pairs)
    /\ RatEq(result.rolling_mae,
             [num |-> SumAbsError(PooledPairs), den |-> Len(PooledPairs)])
    /\ ~RatEq(result.rolling_mae, MeanOfWindowMaes)

\* C6: a series that is long enough but yields no pair in any window gets
\* the error 'no valid forecasts generated', whose label is not the label
\* of the insufficient-data error; a returned result has an error label
\* exactly when it holds no computed MAE/MAPE.
C6_NoValidForecasts ==
    /\ ErrNoForecasts # ErrNotEnough
    /\ (ReturnedCleaned /\ Len(df_ts_copy) >= window + horizon
            /\ PooledPairs = <<>>) =>
          /\ HasError
          /\ result.error = ErrNoForecasts
    /\ pc = "done" =>
          /\ HasError <=> IsNaN(result.rolling_mae)
          /\ HasError <=> "terms" \notin DOMAIN result.rolling_mape
          /\ HasError => IsNaN(result.rolling_mape)
          /\ ~HasError => DOMAIN result = {"rolling_mae", "rolling_mape"}

C6_Witness ==
    /\ ReturnedCleaned
    /\ Len(df_ts_copy) >= window + horizon
    /\ n_calls > 0
    /\ PooledPairs = <<>>
    /\ HasError
    /\ result.error = ErrNoForecasts

\* the window the loop went through last got a forecast back
ForecastReturned ==
    /\ pc \in {"loop", "done"}
    /\ last_window.kind \in {"merged", "no_match"}

\* the evaluation period of that window: the horizon days after the last
\* training date
EvalPeriod ==
    (LastTrainDate(last_window.i) + 1)..(LastTrainDate(last_window.i) + horizon)

\* the rows of the series dated in the evaluation period
EvalRows == {r \in 1..Len(df_ts_copy) : df_ts_copy[r].ds \in EvalPeriod}

\* (series row, forecast row) of the same date
Matches ==
    {m \in EvalRows \X (1..Len(last_window.forecast)) :
        last_window.forecast[m[2]].date = df_ts_copy[m[1]].ds}

PairOf(m) == [ds   |-> df_ts_copy[m[1]].ds,
              y    |-> df_ts_copy[m[1]].y,
              yhat |-> last_window.forecast[m[2]].yhat]

\* a day of the evaluation period has no row in the series
EvalDayMissing == \E d \in EvalPeriod : \A r \in EvalRows : df_ts_copy[r].ds # d

\* no date of the evaluation period occurs twice in the series
EvalDatesUnique ==
    \A r, q \in EvalRows : df_ts_copy[r].ds = df_ts_copy[q].ds => r = q

\* the pairs of the window are those of the matching rows, no other
ExactDateJoin ==
    /\ Len(last_window.pairs) = Cardinality(Matches)
    /\ \A m \in Matches :
          \E p \in 1..Len(last_window.pairs) : last_window.pairs[p] = PairOf(m)
    /\ \A p \in 1..Len(last_window.pairs) :
          \E m \in Matches : last_window.pairs[p] = PairOf(m)
    /\ Len(last_window.actuals) = Cardinality(EvalRows)
    /\ \A a \in 1..Len(last_window.actuals) :
          last_window.actuals[a].ds \in EvalPeriod
    /\ trace[Len(trace)].pairs = last_window.pairs

\* C7 as claimed: the pairs of a window are those of the dates that are in
\* the series within last+1 .. last+horizon and in the forecast, and a
\* window whose evaluation period has a missing calendar day contributes
\* fewer than horizon pairs.
C7_MissingDayFewerPairs ==
    ForecastReturned =>
        /\ ExactDateJoin
        /\ EvalDayMissing => Len(last_window.pairs) < horizon

\* C7 as amended: the pairs of a window are the (y, yhat) of the series
\* rows dated within last+1 .. last+horizon whose date is also a date of
\* the forecast, one pair per matching row; a window whose evaluation
\* period has a missing calendar day contributes fewer than horizon pairs
\* provided no date of the period occurs more than once in the series.
C7_ExactDateJoin ==
    ForecastReturned =>
        /\ ExactDateJoin
        /\ (EvalDayMissing /\ EvalDatesUnique) =>
              Len(last_window.pairs) < horizon

C7_Witness ==
    /\ ForecastReturned
    /\ horizon = 2
    /\ EvalDayMissing
    /\ EvalDatesUnique
    /\ Len(last_window.pairs) = 1
    /\ Len(last_window.forecast) = 2
    /\ \E f \in 1..2 : \A r \in EvalRows :
          last_window.forecast[f].date # df_ts_copy[r].ds

\* the window processed last called the forecast function: last_call holds
\* its training slice, last_window the rows of its evaluation period
WindowEvaluated ==
    /\ last_window.kind \notin {"none", "no_actuals"}
    /\ last_call.i = last_window.i

\* the rows of the series that the window does not train on and that have
\* the date of its last training row
SameDayAfterTraining ==
    {r \in (last_window.i + window + 1)..Len(df_ts_copy) :
        df_ts_copy[r].ds = MaxDs(last_call.train)}

\* C27: in every window, every row used as an actual value, and every pair
\* scored, has a date strictly later than every row of the training slice
\* of that window, whatever dates repeat or are missing in the series.
C27_NoLookAhead ==
    WindowEvaluated =>
        /\ last_call.train = TrainSlice(df_ts_copy, last_window.i)
        /\ \A t \in 1..Len(last_call.train) :
              /\ \A a \in 1..Len(last_window.actuals) :
                    last_window.actuals[a].ds > last_call.train[t].ds
              /\ \A p \in 1..Len(last_window.pairs) :
                    last_window.pairs[p].ds > last_call.train[t].ds

\* a window scored although a row outside its training slice has the date
\* of the last training row: that row is not among the actual values
C27_Witness ==
    /\ WindowEvaluated
    /\ last_window.kind = "merged"
    /\ SameDayAfterTraining # {}
    /\ Len(last_window.actuals) < Len(df_ts_copy) - (last_window.i + window)

\* a window scored after a day without a row: the first actual value is two
\* days after the last training row
C27_GapWitness ==
    /\ WindowEvaluated
    /\ last_window.kind = "merged"
    /\ horizon = 2
    /\ \A a \in 1..Len(last_window.actuals) :
          last_window.actuals[a].ds = MaxDs(last_call.train) + 2

(***************************************************************************)
(* calculate_inventory_status                                              *)
(*                                                                         *)
(* The two in-place column updates (fillna at line 99, replace at line     *)
(* 121) are modelled as taking effect on the frame, as they do in the      *)
(* pandas versions the code was written for.                               *)
(***************************************************************************)
Products == {"A", "B"}

\* the stock levels and the average daily sales the model passes
StockLevels == {-1, 0, 1, 22}

SalesLevels == {0, 1, 21}

CriticalDayLevels == {0, 1, 2}

RECURSIVE MergeLeftRow(_, _)
\* the rows one stock row makes with the sales rows of the same product
MergeLeftRow(stock_row, sales_df) ==
    IF sales_df = <<>> THEN <<>>
    ELSE (IF Head(sales_df).product = stock_row.product
          THEN <<[product |-> stock_row.product,
                  current_stock |-> stock_row.current_stock,
                  avg_daily_sales |-> Rat(Head(sales_df).avg_daily_sales)]>>
          ELSE <<>>)
         \o MergeLeftRow(stock_row, Tail(sales_df))

RECURSIVE MergeLeft_Inner(_, _)
\* the merge with how='inner': a stock row without a sales row is dropped
MergeLeft_Inner(stock_df, sales_df) ==
    IF stock_df = <<>> THEN <<>>
    ELSE MergeLeftRow(Head(stock_df), sales_df)
         \o MergeLeft_Inner(Tail(stock_df), sales_df)

RECURSIVE MergeLeft(_, _)
\* lines 94-96: product_current_stock_df.merge(avg_daily_sales_data,
\* on='product', how='left'); a stock row without a sales row gets NaN
MergeLeft(stock_df, sales_df) ==
    IF stock_df = <<>> THEN <<>>
    ELSE LET matched == MergeLeftRow(Head(stock_df), sales_df)
         IN  (IF matched = <<>>
              THEN <<[product |-> Head(stock_df).product,
                      current_stock |-> Head(stock_df).current_stock,
                      avg_daily_sales |-> NaN]>>
              ELSE matched)
             \o MergeLeft(Tail(stock_df), sales_df)

\* line 99: fillna(0)
FillNaZero(x) == IF IsNaN(x) THEN Rat(0) ELSE x

\* the days of stock left without the override of line 110
StockoutRiskDays_NoOverride(current_stock, avg_daily_sales) ==
    IF Leq(Rat(0), avg_daily_sales) /\ avg_daily_sales.num > 0
    THEN [num |-> current_stock * avg_daily_sales.den,
          den |-> avg_daily_sales.num]
    ELSE Inf

\* lines 103-110: the days of stock left, before the clean-up for display
StockoutRiskDays(current_stock, avg_daily_sales) ==
    LET by_sales == IF Leq(Rat(0), avg_daily_sales) /\ avg_daily_sales.num > 0
                    THEN [num |-> current_stock * avg_daily_sales.den,
                          den |-> avg_daily_sales.num]
                    ELSE Inf
    IN  IF current_stock <= 0 /\ avg_daily_sales.num > 0 THEN Rat(0)
        ELSE by_sales

\* the threshold itself left out
IsCritical_Strict(stockout_risk_days, critical_days) ==
    /\ Leq(stockout_risk_days, Rat(critical_days))
    /\ ~Leq(Rat(critical_days), stockout_risk_days)
    /\ Leq(Rat(0), stockout_risk_days)

\* line 113
IsCritical(stockout_risk_days, critical_days) ==
    /\ Leq(stockout_risk_days, Rat(critical_days))
    /\ Leq(Rat(0), stockout_risk_days)

\* the assignments of lines 116 and 117 in the other order
StatusLabel_Swapped(current_stock, avg_daily_sales, stockout_risk_days, critical_days) ==
    LET l1 == "Good Stock"
        l2 == IF current_stock <= 0 THEN "Out of Stock" ELSE l1
        l3 == IF Leq(stockout_risk_days, Rat(critical_days))
              THEN "Critical Low Stock" ELSE l2
        l4 == IF /\ current_stock > 0
                 /\ avg_daily_sales.num = 0 /\ IsFinite(avg_daily_sales)
                 /\ IsInf(stockout_risk_days)
              THEN "No Sales" ELSE l3
    IN  l4

\* lines 115-118: each assignment overrides the ones before it
StatusLabel(current_stock, avg_daily_sales, stockout_risk_days, critical_days) ==
    LET l1 == "Good Stock"
        l2 == IF Leq(stockout_risk_days, Rat(critical_days))
              THEN "Critical Low Stock" ELSE l1
        l3 == IF current_stock <= 0 THEN "Out of Stock" ELSE l2
        l4 == IF /\ current_stock > 0
                 /\ avg_daily_sales.num = 0 /\ IsFinite(avg_daily_sales)
                 /\ IsInf(stockout_risk_days)
              THEN "No Sales" ELSE l3
    IN  l4

\* lines 121-122: infinities become NaN, then round(1)
CleanRiskDays(stockout_risk_days) ==
    Round1(IF IsInf(stockout_risk_days) THEN NaN ELSE stockout_risk_days)

\* the intermediate column stockout_risk_days, one value per merged row
RiskColumn(merged) ==
    [k \in 1..Len(merged) |->
        StockoutRiskDays(merged[k].current_stock,
                         FillNaZero(merged[k].avg_daily_sales))]

\* lines 89-124
InventoryStatus(stock_df, sales_df, critical_days) ==
    IF stock_df = <<>> \/ sales_df = <<>> THEN <<>>
    ELSE LET merged == MergeLeft(stock_df, sales_df)
             risk   == RiskColumn(merged)
         IN  [k \in 1..Len(merged) |->
                 LET avg == FillNaZero(merged[k].avg_daily_sales)
                 IN  [product |-> merged[k].product,
                      current_stock |-> merged[k].current_stock,
                      avg_daily_sales |-> avg,
                      stockout_risk_days |-> CleanRiskDays(risk[k]),
                      is_critical |-> IsCritical(risk[k], critical_days),
                      status_label |->
                          StatusLabel(merged[k].current_stock, avg, risk[k],
                                      critical_days)]]

RollIdle ==
    /\ forecast_method = "prophet"
    /\ window = DefaultWindow
    /\ horizon = DefaultHorizon
    /\ df_ts = <<>>
    /\ df_ts_copy = <<>>
    /\ pc = "idle"
    /\ i = 0
    /\ all_actuals = <<>>
    /\ all_forecasts = <<>>
    /\ n_calls = 0
    /\ last_call = NoCall
    /\ trace = <<>>
    /\ last_window = NoWindow
    /\ skipped = {}
    /\ result = NoResult

StockFrames ==
    UNION {[1..n -> [product : Products, current_stock : StockLevels]] :
           n \in 0..MaxStockRows}

SalesFrames ==
    UNION {[1..n -> [product : Products, avg_daily_sales : SalesLevels]] :
           n \in 0..MaxSalesRows}

InitInv ==
    /\ product_current_stock_df \in StockFrames
    /\ avg_daily_sales_data \in SalesFrames
    /\ critical_stock_days \in CriticalDayLevels
    /\ inv_pc = "call"
    /\ inventory_data = <<>>
    /\ stockout_risk_raw = <<>>
    /\ RollIdle
    /\ AnomIdle
    /\ SlowIdle
    /\ FiltIdle
    /\ PlanIdle
    /\ AuthIdle
    /\ PrepIdle

\* the whole call
CalculateInventoryStatus ==
    /\ inv_pc = "call"
    /\ inventory_data' = InventoryStatus(product_current_stock_df,
                                         avg_daily_sales_data,
                                         critical_stock_days)
    /\ stockout_risk_raw' =
           IF product_current_stock_df = <<>> \/ avg_daily_sales_data = <<>>
           THEN <<>>
           ELSE RiskColumn(MergeLeft(product_current_stock_df,
                                     avg_daily_sales_data))
    /\ inv_pc' = "returned"
    /\ UNCHANGED <<product_current_stock_df, avg_daily_sales_data,
                   critical_stock_days>>
    /\ UNCHANGED <<rollVars, anomVars, slowVars, filtVars, planVars,
                    authVars,
                   prepVars>>

NextInv == CalculateInventoryStatus

SpecInv == InitInv /\ [][NextInv]_vars

(***************************************************************************)
(* Properties of calculate_inventory_status                                *)
(***************************************************************************)
Returned == inv_pc = "returned"

ReturnedRows == 1..Len(inventory_data)

\* the average daily sales of the k-th returned row, a whole number here
AvgOf(k) == inventory_data[k].avg_daily_sales.num

StockOf(k) == inventory_data[k].current_stock

\* the returned stockout_risk_days of the k-th row
RiskOf(k) == inventory_data[k].stockout_risk_days

\* stockout_risk_days of the k-th row as is_critical and status_label saw
\* it, before lines 121-122
RawRiskOf(k) == stockout_risk_raw[k]

\* x is the fraction n / d rounded to one decimal
IsRoundedToTenth(x, n, d) ==
    /\ x.den = 10
    /\ 2 * Abs(x.num * d - 10 * n) <= d

\* C8 as claimed: in the returned rows stockout_risk_days is current_stock
\* / avg_daily_sales when both are positive, 0 when current_stock <= 0 and
\* avg_daily_sales > 0, and +infinity when avg_daily_sales is 0.
C8_ReturnedRiskDaysExact ==
    Returned =>
        \A k \in ReturnedRows :
            /\ (AvgOf(k) > 0 /\ StockOf(k) > 0) =>
                  RatEq(RiskOf(k), [num |-> StockOf(k), den |-> AvgOf(k)])
            /\ (AvgOf(k) > 0 /\ StockOf(k) <= 0) => RatEq(RiskOf(k), Rat(0))
            /\ AvgOf(k) = 0 => IsInf(RiskOf(k))

\* C8 as amended: in the returned rows stockout_risk_days is current_stock
\* / avg_daily_sales rounded to one decimal when both are positive and 0
\* when current_stock <= 0 and avg_daily_sales > 0; when avg_daily_sales is
\* 0 it is +infinity while is_critical and status_label are computed and
\* missing (NaN) in the returned row.
C8_ReturnedRiskDays ==
    Returned =>
        /\ Len(stockout_risk_raw) = Len(inventory_data)
        /\ \A k \in ReturnedRows :
              /\ IsFinite(inventory_data[k].avg_daily_sales)
              /\ AvgOf(k) >= 0
              /\ (AvgOf(k) > 0 /\ StockOf(k) > 0) =>
                    /\ RatEq(RawRiskOf(k),
                             [num |-> StockOf(k), den |-> AvgOf(k)])
                    /\ IsRoundedToTenth(RiskOf(k), StockOf(k), AvgOf(k))
              /\ (AvgOf(k) > 0 /\ StockOf(k) <= 0) =>
                    /\ RatEq(RawRiskOf(k), Rat(0))
                    /\ RatEq(RiskOf(k), Rat(0))
              /\ AvgOf(k) = 0 =>
                    /\ IsInf(RawRiskOf(k))
                    /\ IsNaN(RiskOf(k))

C8_Witness ==
    /\ Returned
    /\ \E k \in ReturnedRows :
          /\ AvgOf(k) > 0
          /\ StockOf(k) > 0
          /\ ~RatEq(RiskOf(k), RawRiskOf(k))
    /\ \E k \in ReturnedRows :
          /\ AvgOf(k) = 0
          /\ IsNaN(RiskOf(k))

\* 0 <= x <= critical_stock_days
WithinCritical(x) ==
    /\ IsFinite(x)
    /\ x.num >= 0
    /\ x.num <= critical_stock_days * x.den

\* for every critical_stock_days > 0 a product out of stock that sells has
\* stockout_risk_days = 0 and is critical
SoldOutIsCritical ==
    critical_stock_days > 0 =>
        \A k \in ReturnedRows :
            (StockOf(k) = 0 /\ AvgOf(k) > 0) =>
                /\ RatEq(RiskOf(k), Rat(0))
                /\ inventory_data[k].is_critical

\* C9 as claimed: in every returned row is_critical is true exactly when
\* the row's stockout_risk_days satisfies 0 <= stockout_risk_days <=
\* critical_stock_days; a product with current_stock = 0 that sells is
\* critical with stockout_risk_days = 0 for every critical_stock_days > 0.
C9_CriticalOnReturnedValue ==
    Returned =>
        /\ \A k \in ReturnedRows :
              inventory_data[k].is_critical <=> WithinCritical(RiskOf(k))
        /\ SoldOutIsCritical

\* C9 as amended: in every returned row is_critical is true exactly when
\* the row's stockout_risk_days before it is rounded to one decimal
\* satisfies 0 <= stockout_risk_days <= critical_stock_days; a product with
\* current_stock = 0 that sells is critical with stockout_risk_days = 0 for
\* every critical_stock_days > 0.
C9_CriticalOnUnroundedValue ==
    Returned =>
        /\ \A k \in ReturnedRows :
              inventory_data[k].is_critical <=> WithinCritical(RawRiskOf(k))
        /\ SoldOutIsCritical

C9_Witness ==
    /\ Returned
    /\ critical_stock_days > 0
    /\ \E k \in ReturnedRows :
          /\ WithinCritical(RiskOf(k))
          /\ ~WithinCritical(RawRiskOf(k))
          /\ ~inventory_data[k].is_critical
    /\ \E k \in ReturnedRows :
          /\ StockOf(k) = 0
          /\ AvgOf(k) > 0
          /\ inventory_data[k].is_critical

\* the label of the last rule that applies, the rules taken from the last
\* to the first
LastRuleLabel(k) ==
    IF StockOf(k) > 0 /\ AvgOf(k) = 0 THEN "No Sales"
    ELSE IF StockOf(k) <= 0 THEN "Out of Stock"
    ELSE IF /\ ~IsNaN(RawRiskOf(k))
            /\ IsFinite(RawRiskOf(k))
            /\ RawRiskOf(k).num <= critical_stock_days * RawRiskOf(k).den
         THEN "Critical Low Stock"
    ELSE "Good Stock"

\* C10: status_label is the label of the last rule that applies among
\* 'Good Stock' (default), 'Critical Low Stock' (stockout_risk_days, as
\* computed, <= critical_stock_days), 'Out of Stock' (current_stock <= 0),
\* 'No Sales' (current_stock > 0 and avg_daily_sales = 0); so every product
\* with current_stock <= 0 is 'Out of Stock' and every product with stock
\* and zero average sales is 'No Sales'.
C10_StatusLabel ==
    Returned =>
        \A k \in ReturnedRows :
            /\ inventory_data[k].status_label = LastRuleLabel(k)
            /\ StockOf(k) <= 0 => inventory_data[k].status_label = "Out of Stock"
            /\ (StockOf(k) > 0 /\ AvgOf(k) = 0) =>
                  inventory_data[k].status_label = "No Sales"

C10_Witness ==
    /\ Returned
    /\ \E k \in ReturnedRows :
          /\ inventory_data[k].status_label = "Out of Stock"
          /\ AvgOf(k) > 0
          /\ WithinCritical(RawRiskOf(k))
    /\ \E k \in ReturnedRows :
          /\ inventory_data[k].status_label = "No Sales"
          /\ StockOf(k) > 0
          /\ IsNaN(RiskOf(k))

\* the sales rows of the product of the s-th stock row
SalesRowsOf(s) ==
    {a \in 1..Len(avg_daily_sales_data) :
        avg_daily_sales_data[a].product = product_current_stock_df[s].product}

\* the returned rows that carry the product and the stock of the s-th stock row
ResultRowsOf(s) ==
    {k \in ReturnedRows :
        /\ inventory_data[k].product = product_current_stock_df[s].product
        /\ inventory_data[k].current_stock =
               product_current_stock_df[s].current_stock}

StockProducts ==
    {product_current_stock_df[s].product : s \in 1..Len(product_current_stock_df)}

SalesProducts ==
    {avg_daily_sales_data[a].product : a \in 1..Len(avg_daily_sales_data)}

\* every stock row is in the result, once per sales row of its product and
\* once if there is none; a product without sales row has avg_daily_sales 0;
\* a product of the sales input alone is not in the result
LeftJoined ==
    /\ \A s \in 1..Len(product_current_stock_df) : ResultRowsOf(s) # {}
    /\ Len(inventory_data) =
           Cardinality({m \in (1..Len(product_current_stock_df))
                                 \X (1..Len(avg_daily_sales_data)) :
                           m[2] \in SalesRowsOf(m[1])})
           + Cardinality({s \in 1..Len(product_current_stock_df) :
                             SalesRowsOf(s) = {}})
    /\ \A k \in ReturnedRows :
          /\ inventory_data[k].product \in StockProducts
          /\ IF inventory_data[k].product \in SalesProducts
             THEN \E a \in 1..Len(avg_daily_sales_data) :
                     /\ avg_daily_sales_data[a].product = inventory_data[k].product
                     /\ RatEq(inventory_data[k].avg_daily_sales,
                              Rat(avg_daily_sales_data[a].avg_daily_sales))
             ELSE RatEq(inventory_data[k].avg_daily_sales, Rat(0))

\* C11 as claimed: for every non-empty stock input and every average-sales
\* input the result is the left join of the two on product: each stock row
\* appears, a product without sales row gets avg_daily_sales = 0, a product
\* of the sales input alone never appears.
C11_LeftJoinAnySales ==
    (Returned /\ product_current_stock_df # <<>>) => LeftJoined

\* C11 as amended: the same for every non-empty stock input and every
\* non-empty average-sales input; with an empty average-sales input the
\* result is empty.
C11_LeftJoin ==
    Returned =>
        /\ (product_current_stock_df # <<>> /\ avg_daily_sales_data # <<>>) =>
              LeftJoined
        /\ (product_current_stock_df = <<>> \/ avg_daily_sales_data = <<>>) =>
              inventory_data = <<>>

C11_Witness ==
    /\ Returned
    /\ SalesProducts \ StockProducts # {}
    /\ \E k \in ReturnedRows :
          /\ inventory_data[k].product \notin SalesProducts
          /\ RatEq(inventory_data[k].avg_daily_sales, Rat(0))
    /\ Len(inventory_data) = Len(product_current_stock_df)

(***************************************************************************)
(* detect_sales_anomalies                                                  *)
(*                                                                         *)
(* The sales of a day are whole numbers.  A standard deviation and a       *)
(* z-score are square roots of fractions: [sign, sq] stands for            *)
(* sign * sqrt(sq), sq a fraction; sq = NaN makes the number NaN.          *)
(***************************************************************************)
\* the daily sales the model passes, and thresholds of the slider of
\* Alert_Centre.py (1.0 to 4.0 in steps of 0.1)
SalesValues == {0, 10, 100}

Thresholds == {Rat(1), [num |-> 3, den |-> 2], Rat(2),
               [num |-> 5, den |-> 2], Rat(3), Rat(4)}

NaNRoot == [sign |-> 0, sq |-> NaN]

ZeroRoot == [sign |-> 0, sq |-> Rat(0)]

IsNaNRoot(x) == IsNaN(x.sq)

Sgn(n) == IF n > 0 THEN 1 ELSE IF n < 0 THEN -1 ELSE 0

RECURSIVE SumSeq(_)
SumSeq(xs) == IF xs = <<>> THEN 0 ELSE Head(xs) + SumSeq(Tail(xs))

RECURSIVE SumSquares(_)
SumSquares(xs) ==
    IF xs = <<>> THEN 0 ELSE Head(xs) * Head(xs) + SumSquares(Tail(xs))

\* a window of three days at most
WindowSize_Three(n) == IF n < 3 THEN n ELSE 3

\* line 143: window_size = min(7, len(sales_data))
WindowSize(n) == IF n < RollingDays THEN n ELSE RollingDays

\* rolling(window=window_size, min_periods=1) at row k: the window_size
\* values that end with row k, fewer at the start of the series
RollingWindow(sales, k, window_size) ==
    SubSeq(sales, Max2(1, k - window_size + 1), k)

\* line 144: the mean of the window
RollingMean(win) == [num |-> SumSeq(win), den |-> Len(win)]

\* the population standard deviation of the window (ddof = 0)
RollingStd_Population(win) ==
    LET n   == Len(win)
        num == n * SumSquares(win) - SumSeq(win) * SumSeq(win)
    IN  [sign |-> Sgn(num), sq |-> [num |-> num, den |-> n * n]]

\* line 145: the sample standard deviation of the window (ddof = 1), NaN
\* for a window of one value
RollingStd(win) ==
    LET n   == Len(win)
        num == n * SumSquares(win) - SumSeq(win) * SumSeq(win)
    IN  IF n < 2 THEN NaNRoot
        ELSE [sign |-> Sgn(num), sq |-> [num |-> num, den |-> n * (n - 1)]]

\* line 148: replace(0, np.nan)
ReplaceZeroWithNaN(std) ==
    IF ~IsNaNRoot(std) /\ std.sign = 0 THEN NaNRoot ELSE std

\* line 151: (sales - mean_sales) / std_dev_sales
ZScore(sales, mean_sales, std_dev_sales) ==
    LET diff == sales * mean_sales.den - mean_sales.num
    IN  IF IsNaNRoot(std_dev_sales) THEN NaNRoot
        ELSE IF std_dev_sales.sign = 0 /\ diff = 0 THEN NaNRoot
        ELSE [sign |-> Sgn(diff),
              sq   |-> [num |-> diff * diff * std_dev_sales.sq.den,
                        den |-> mean_sales.den * mean_sales.den
                                * std_dev_sales.sq.num]]

\* the z-score left NaN
FillNaZScore_Keep(z_score) == z_score

\* line 152: fillna(0)
FillNaZScore(z_score) == IF IsNaNRoot(z_score) THEN ZeroRoot ELSE z_score

\* z > t for a z-score z and a fraction t; false when z is NaN
RootGreater(z, t) ==
    /\ ~IsNaNRoot(z)
    /\ IF t.num >= 0
       THEN /\ z.sign > 0
            /\ \/ z.sq.den = 0
               \/ z.sq.num * t.den * t.den > t.num * t.num * z.sq.den
       ELSE \/ z.sign >= 0
            \/ /\ z.sq.den > 0
               /\ z.sq.num * t.den * t.den < t.num * t.num * z.sq.den

\* z < t for a z-score z and a fraction t; false when z is NaN
RootLess(z, t) ==
    RootGreater([sign |-> -z.sign, sq |-> z.sq], [num |-> -t.num, den |-> t.den])

\* the threshold itself counted as above it
IsAnomalyHigh_Inclusive(z_score, threshold) ==
    ~IsNaNRoot(z_score) /\ ~RootLess(z_score, threshold)

\* line 154: z_score > z_score_threshold
IsAnomalyHigh(z_score, threshold) == RootGreater(z_score, threshold)

\* line 155: z_score < -z_score_threshold
IsAnomalyLow(z_score, threshold) ==
    RootLess(z_score, [num |-> -threshold.num, den |-> threshold.den])

\* lines 138-157: the returned rows; the date of a row is its day number
DetectSalesAnomalies(sales, threshold) ==
    IF Len(sales) < MinSeriesLen THEN <<>>
    ELSE LET window_size == WindowSize(Len(sales))
         IN  [k \in 1..Len(sales) |->
                 LET win  == RollingWindow(sales, k, window_size)
                     mean == RollingMean(win)
                     std  == ReplaceZeroWithNaN(RollingStd(win))
                     z    == FillNaZScore(ZScore(sales[k], mean, std))
                 IN  [date            |-> k,
                      sales           |-> sales[k],
                      mean_sales      |-> mean,
                      std_dev_sales   |-> std,
                      z_score         |-> z,
                      is_anomaly_high |-> IsAnomalyHigh(z, threshold),
                      is_anomaly_low  |-> IsAnomalyLow(z, threshold)]]

SalesSeries == UNION {[1..n -> SalesValues] : n \in 0..MaxSeriesLen}

InitAnom ==
    /\ sales_data \in SalesSeries
    /\ z_score_threshold \in Thresholds
    /\ anom_pc = "call"
    /\ anomalies_df = <<>>
    /\ RollIdle
    /\ InvIdle
    /\ SlowIdle
    /\ FiltIdle
    /\ PlanIdle
    /\ AuthIdle
    /\ PrepIdle

\* the whole call
DetectSalesAnomaliesCall ==
    /\ anom_pc = "call"
    /\ anomalies_df' = DetectSalesAnomalies(sales_data, z_score_threshold)
    /\ anom_pc' = "returned"
    /\ UNCHANGED <<sales_data, z_score_threshold>>
    /\ UNCHANGED <<rollVars, invVars, slowVars, filtVars, planVars, authVars,
                   prepVars>>

NextAnom == DetectSalesAnomaliesCall

SpecAnom == InitAnom /\ [][NextAnom]_vars

(***************************************************************************)
(* Properties of detect_sales_anomalies                                    *)
(***************************************************************************)
AnomReturned == anom_pc = "returned"

AnomRows == 1..Len(anomalies_df)

\* the first day of the trailing window of day k
WindowStart(k) ==
    IF Len(sales_data) < 7 THEN 1 ELSE IF k > 7 THEN k - 6 ELSE 1

\* the standard deviation of the window of day k is 0 or undefined: the
\* days of the window have the same sales (one day alone included)
FlatWindow(k) ==
    \A j \in WindowStart(k)..k : sales_data[j] = sales_data[k]

ConstantSeries ==
    \A j, k \in 1..Len(sales_data) : sales_data[j] = sales_data[k]

Flagged(k) ==
    anomalies_df[k].is_anomaly_high \/ anomalies_df[k].is_anomaly_low

\* C12: a point whose trailing-window standard deviation is 0 or undefined
\* has z_score 0 and is flagged neither high nor low; so no point of a
\* series of one value repeated at least 7 times is flagged.
C12_FlatWindowNotFlagged ==
    AnomReturned =>
        /\ Len(sales_data) >= 2 => Len(anomalies_df) = Len(sales_data)
        /\ \A k \in AnomRows :
              FlatWindow(k) =>
                  /\ anomalies_df[k].z_score = ZeroRoot
                  /\ IsNaNRoot(anomalies_df[k].std_dev_sales)
                  /\ ~Flagged(k)
        /\ (ConstantSeries /\ Len(sales_data) >= 7) =>
              \A k \in AnomRows : ~Flagged(k)

C12_Witness ==
    /\ AnomReturned
    /\ ConstantSeries
    /\ Len(sales_data) >= 7
    /\ Len(anomalies_df) = Len(sales_data)
    /\ sales_data[1] = 10
    /\ \A k \in AnomRows : anomalies_df[k].z_score = ZeroRoot /\ ~Flagged(k)

\* the square of the z-score of row k is greater than the square of the
\* threshold
BeyondThreshold(k) ==
    anomalies_df[k].z_score.sq.num * z_score_threshold.den * z_score_threshold.den
        > z_score_threshold.num * z_score_threshold.num
          * anomalies_df[k].z_score.sq.den

SpikeExample ==
    /\ sales_data = <<10, 10, 10, 10, 10, 10, 10, 100>>
    /\ z_score_threshold = Rat(2)

\* C14: for seven equal values followed by a much larger one
\* ([10,10,10,10,10,10,10,100]) and z_score_threshold = 2.0 the 8th point
\* is flagged is_anomaly_high and none of the first 7 is flagged; the
\* window of the 8th point is its 7 last points, the deviation the sample
\* standard deviation.
C14_SpikeFlagged ==
    (AnomReturned /\ SpikeExample) =>
        /\ Len(anomalies_df) = 8
        /\ anomalies_df[8].is_anomaly_high
        /\ ~anomalies_df[8].is_anomaly_low
        /\ \A k \in 1..7 : ~Flagged(k)
        /\ RatEq(anomalies_df[8].mean_sales, [num |-> 160, den |-> 7])
        /\ RatEq(anomalies_df[8].std_dev_sales.sq, [num |-> 48600, den |-> 42])

C14_Witness ==
    /\ AnomReturned
    /\ SpikeExample
    /\ anomalies_df[8].is_anomaly_high
    /\ \A k \in 1..7 : anomalies_df[k].z_score = ZeroRoot

\* the number of days of the trailing window of day k, that day included
WindowDays(k) == k - WindowStart(k) + 1

\* the square of the z-score of row k is (w - 1)^2 / w at most, w the days
\* of its window, hence 36/7 at most
WithinSampleBound(k) ==
    LET sq == anomalies_df[k].z_score.sq
        w  == WindowDays(k)
    IN  /\ sq.den > 0
        /\ sq.num * w <= (w - 1) * (w - 1) * sq.den
        /\ sq.num * 7 <= 36 * sq.den
        /\ 36 * 100 * 100 < 227 * 227 * 7

\* the threshold is 2.27 or more
ThresholdBeyondBound == z_score_threshold.num * 100 >= 227 * z_score_threshold.den

\* C28: the z-score of a point against its trailing window of w <= 7 days,
\* the point included, with the sample standard deviation, has a square of
\* (w - 1)^2 / w at most (36/7, below 2.27 squared); so with a threshold of
\* 3.0, or any threshold of 2.27 or more, no point is flagged.
C28_ZScoreBounded ==
    AnomReturned =>
        \A k \in AnomRows :
            /\ WithinSampleBound(k)
            /\ ThresholdBeyondBound => ~Flagged(k)

\* the spike of seven days at 10 and an eighth at 100, threshold 3.0: the
\* z-score of the eighth day is sqrt(36/7), and it is not flagged
C28_Witness ==
    /\ AnomReturned
    /\ sales_data = <<10, 10, 10, 10, 10, 10, 10, 100>>
    /\ z_score_threshold = Rat(3)
    /\ anomalies_df[8].z_score.sign = 1
    /\ anomalies_df[8].z_score.sq.num * 7 = 36 * anomalies_df[8].z_score.sq.den
    /\ \A k \in AnomRows : ~Flagged(k)

\* the same spike with the largest threshold of the slider, and a drop
\* after six equal days with threshold 2.5
C28_SliderWitness ==
    /\ AnomReturned
    /\ \/ /\ sales_data = <<10, 10, 10, 10, 10, 10, 10, 100>>
          /\ z_score_threshold = Rat(4)
       \/ /\ sales_data = <<100, 100, 100, 100, 100, 100, 0>>
          /\ z_score_threshold = [num |-> 5, den |-> 2]
          /\ anomalies_df[7].z_score.sign = -1
    /\ \A k \in AnomRows : ~Flagged(k)

(***************************************************************************)
(* identify_slow_moving_items                                              *)
(*                                                                         *)
(* Sales and the threshold are counted in tenths of a unit, so that 0.5    *)
(* units a day is 5.  The frames the two groupby calls build are functions *)
(* of their keys.                                                          *)
(***************************************************************************)
RecordDates == {1, 2}

\* 0.5, 1.0 and 5.0 units
SalesTenths == {5, 10, 50}

\* 0.5 and 1.0 units a day
SlowThresholds == {5, 10}

RECURSIVE SumSales(_, _, _)
\* the sum of the sales of the rows from the k-th on that have the key
SumSales(rows, key, k) ==
    IF k > Len(rows) THEN 0
    ELSE (IF <<rows[k].product, rows[k].date>> = key THEN rows[k].sales ELSE 0)
         + SumSales(rows, key, k + 1)

\* line 176: groupby([product_col, 'date'])[sales_col].sum()
ProductDailySales(rows) ==
    [key \in {<<rows[k].product, rows[k].date>> : k \in 1..Len(rows)} |->
        SumSales(rows, key, 1)]

RECURSIVE SumDaily(_, _)
\* the sum of the daily sums of the given keys
SumDaily(product_daily_sales, keys) ==
    IF keys = {} THEN 0
    ELSE LET key == CHOOSE x \in keys : TRUE
         IN  product_daily_sales[key]
             + SumDaily(product_daily_sales, keys \ {key})

\* lines 182-183: groupby(product_col)[sales_col].mean()
AvgDailySalesPerProduct(product_daily_sales) ==
    [p \in {key[1] : key \in DOMAIN product_daily_sales} |->
        LET keys == {key \in DOMAIN product_daily_sales : key[1] = p}
        IN  [num |-> SumDaily(product_daily_sales, keys),
             den |-> Cardinality(keys)]]

\* a product at the threshold counted as slow
IsSlowMoving_Inclusive(avg_daily_sales, threshold) ==
    avg_daily_sales.num <= threshold * avg_daily_sales.den

\* line 186: avg_daily_sales < slow_moving_sales_per_day
IsSlowMoving(avg_daily_sales, threshold) ==
    avg_daily_sales.num < threshold * avg_daily_sales.den

\* line 187: sort_values(by='avg_daily_sales'): the orders of the products
\* of S by ascending average, products of equal average in any order
SortedByAvg(avg, S) ==
    {order \in [1..Cardinality(S) -> S] :
        /\ \A j, k \in 1..Cardinality(S) : j # k => order[j] # order[k]
        /\ \A k \in 1..(Cardinality(S) - 1) :
              Leq(avg[order[k]], avg[order[k + 1]])}

\* lines 172-189: the frames the call can return
SlowMovingItems(rows, threshold) ==
    IF rows = <<>> THEN {<<>>}
    ELSE LET avg  == AvgDailySalesPerProduct(ProductDailySales(rows))
             slow == {p \in DOMAIN avg : IsSlowMoving(avg[p], threshold)}
         IN  {[k \in 1..Len(order) |->
                  [product |-> order[k], avg_daily_sales |-> avg[order[k]]]] :
              order \in SortedByAvg(avg, slow)}

\* self.df is sorted by date when the helper is built (line 36)
RecordFrames ==
    UNION {{rows \in [1..n -> [product : Products, date : RecordDates,
                               sales : SalesTenths]] :
               \A k \in 1..(n - 1) : rows[k].date <= rows[k + 1].date} :
           n \in 0..MaxRecords}

InitSlow ==
    /\ self_df \in RecordFrames
    /\ slow_moving_sales_per_day \in SlowThresholds
    /\ slow_pc = "call"
    /\ slow_moving_items = <<>>
    /\ RollIdle
    /\ InvIdle
    /\ AnomIdle
    /\ FiltIdle
    /\ PlanIdle
    /\ AuthIdle
    /\ PrepIdle

\* the whole call
IdentifySlowMovingItems ==
    /\ slow_pc = "call"
    /\ slow_moving_items' \in SlowMovingItems(self_df, slow_moving_sales_per_day)
    /\ slow_pc' = "returned"
    /\ UNCHANGED <<self_df, slow_moving_sales_per_day>>
    /\ UNCHANGED <<rollVars, invVars, anomVars, filtVars, planVars, authVars,
                   prepVars>>

NextSlow == IdentifySlowMovingItems

SpecSlow == InitSlow /\ [][NextSlow]_vars

(***************************************************************************)
(* Properties of identify_slow_moving_items                                *)
(***************************************************************************)
SlowReturned == slow_pc = "returned"

RecordsOf(p) == {k \in 1..Len(self_df) : self_df[k].product = p}

DatesOf(p) == {self_df[k].date : k \in RecordsOf(p)}

RECURSIVE SumRecords(_)
\* the sum of the sales of the rows of S
SumRecords(S) ==
    IF S = {} THEN 0
    ELSE LET k == CHOOSE x \in S : TRUE
         IN  self_df[k].sales + SumRecords(S \ {k})

\* the mean over the dates of product p of its sales summed per date: the
\* sum of all its sales over the number of its dates
MeanOfDailySums(p) ==
    [num |-> SumRecords(RecordsOf(p)), den |-> Cardinality(DatesOf(p))]

\* the sales of product p on date d
DailySumOf(p, d) == SumRecords({k \in RecordsOf(p) : self_df[k].date = d})

BelowThreshold(p) ==
    MeanOfDailySums(p).num < slow_moving_sales_per_day * MeanOfDailySums(p).den

ReturnedProducts ==
    {slow_moving_items[k].product : k \in 1..Len(slow_moving_items)}

\* C15: the result holds, once each, exactly the products whose mean of
\* the sales summed per (product, date) over the product's dates is
\* strictly below the threshold (a mean equal to the threshold is left
\* out), with that mean, ordered by ascending mean; product A at 0.5 a day
\* and product B at 5 a day with threshold 1.0 return A alone.
C15_SlowMovingItems ==
    SlowReturned =>
        /\ ReturnedProducts =
               {p \in {self_df[k].product : k \in 1..Len(self_df)} :
                   BelowThreshold(p)}
        /\ Len(slow_moving_items) = Cardinality(ReturnedProducts)
        /\ \A k \in 1..Len(slow_moving_items) :
              RatEq(slow_moving_items[k].avg_daily_sales,
                    MeanOfDailySums(slow_moving_items[k].product))
        /\ \A k \in 1..(Len(slow_moving_items) - 1) :
              Leq(slow_moving_items[k].avg_daily_sales,
                  slow_moving_items[k + 1].avg_daily_sales)
        /\ (/\ slow_moving_sales_per_day = 10
            /\ \A k \in 1..Len(self_df) :
                  DailySumOf(self_df[k].product, self_df[k].date) =
                      IF self_df[k].product = "A" THEN 5 ELSE 50
            /\ RecordsOf("A") # {}) =>
              ReturnedProducts = {"A"}

\* A at 0.5 a day on two days and B at 5 on one, threshold 1.0
C15_ExampleWitness ==
    /\ SlowReturned
    /\ slow_moving_sales_per_day = 10
    /\ Cardinality(DatesOf("A")) = 2
    /\ \A d \in DatesOf("A") : DailySumOf("A", d) = 5
    /\ \A d \in DatesOf("B") : DailySumOf("B", d) = 50
    /\ DatesOf("B") # {}
    /\ ReturnedProducts = {"A"}

C15_Witness ==
    /\ SlowReturned
    /\ slow_moving_sales_per_day = 10
    /\ Len(slow_moving_items) = 1
    /\ slow_moving_items[1].product = "B"
    /\ RatEq(slow_moving_items[1].avg_daily_sales, Rat(5))
    /\ \E k \in RecordsOf("A") : self_df[k].sales = 5
    /\ Cardinality(RecordsOf("A")) = 2
    /\ Cardinality(DatesOf("A")) = 1

(***************************************************************************)
(* filter_alerts                                                           *)
(*                                                                         *)
(* An alert is a record [id, alert_date, type, severity, status, message]; *)
(* id stands for the fields the filter never reads.  alert_date is a       *)
(* timestamp [date, time]: a day number counted from 1970-01-01 and a time *)
(* of the day.  A message is [null, text], text a sequence of characters.  *)
(* An optional argument is [given, value].                                 *)
(***************************************************************************)
Given(v) == [given |-> TRUE, value |-> v]

NullMessage == [null |-> TRUE, text |-> <<>>]

Text(t) == [null |-> FALSE, text |-> t]

\* year, month and day of a day number, as the .dt accessors and the
\* attributes of a Timestamp give them (proleptic Gregorian calendar)
CivilDate(day_number) ==
    LET z   == day_number + 719468
        era == z \div 146097
        doe == z - era * 146097
        yoe == (doe - doe \div 1460 + doe \div 36524 - doe \div 146096) \div 365
        doy == doe - (365 * yoe + yoe \div 4 - yoe \div 100)
        mp  == (5 * doy + 2) \div 153
        m   == IF mp < 10 THEN mp + 3 ELSE mp - 9
    IN  [year  |-> yoe + era * 400 + (IF m <= 2 THEN 1 ELSE 0),
         month |-> m,
         day   |-> doy - (153 * mp + 2) \div 5 + 1]

MonthOf(stamp) == CivilDate(stamp.date).month

QuarterOf(stamp) == (MonthOf(stamp) - 1) \div 3 + 1

YearOf(stamp) == CivilDate(stamp.date).year

\* a <= b on timestamps
StampLeq(a, b) == a.date < b.date \/ (a.date = b.date /\ a.time <= b.time)

RECURSIVE LatestStamp(_, _)
\* line 217: filtered_alerts['alert_date'].max(), over the first k rows
LatestStamp(rows, k) ==
    IF k = 1 THEN rows[1].alert_date
    ELSE LET rest == LatestStamp(rows, k - 1)
         IN  IF StampLeq(rest, rows[k].alert_date)
             THEN rows[k].alert_date ELSE rest

\* a week of six days
WeekStart_SixDays(latest) ==
    [date |-> latest.date - (WeekDays - 1), time |-> latest.time]

\* line 223: latest_date - timedelta(weeks=1)
WeekStart(latest) == [date |-> latest.date - WeekDays, time |-> latest.time]

\* `if x:` on an optional string argument
Truthy(arg) == arg.given /\ arg.value # ""

\* `if search_query:`
QueryTruthy(query) == query.given /\ query.value # <<>>

\* lines 220-230: the test of the branch taken for the time range; a name
\* that has no branch ('Custom Range') tests nothing
InTimeRange(alert_date, range, latest) ==
    CASE range = "Daily"     -> alert_date.date = latest.date
      [] range = "Weekly"    -> StampLeq(WeekStart(latest), alert_date)
      [] range = "Monthly"   -> MonthOf(alert_date) = MonthOf(latest)
      [] range = "Quarterly" -> QuarterOf(alert_date) = QuarterOf(latest)
      [] range = "Yearly"    -> YearOf(alert_date) = YearOf(latest)
      [] OTHER               -> TRUE

\* lines 219-230
FilterByTime(rows, range, latest) ==
    IF Truthy(range)
    THEN SelectSeq(rows, LAMBDA r : InTimeRange(r.alert_date, range.value, latest))
    ELSE rows

\* "All" taken for a value to match
FilterByField_NoSentinel(rows, field, arg) ==
    IF Truthy(arg)
    THEN SelectSeq(rows, LAMBDA r : r[field] = arg.value)
    ELSE rows

\* lines 233-240: `if arg and arg != "All"`, then the equality test
FilterByField(rows, field, arg) ==
    IF Truthy(arg) /\ arg.value # "All"
    THEN SelectSeq(rows, LAMBDA r : r[field] = arg.value)
    ELSE rows

\* case=False
Lower(c) == IF c = "A" THEN "a" ELSE IF c = "B" THEN "b" ELSE c

\* str.contains takes its pattern for a regular expression (regex=True is
\* its default): an opening parenthesis that is never closed does not
\* compile and re.error is raised
PatternError(pattern) == \E k \in 1..Len(pattern) : pattern[k] = "("

\* one character of the pattern against one of the text: '.' matches any
PatternCharMatches(p, c) == p = "." \/ Lower(p) = Lower(c)

PatternFoundAt(pattern, text, start) ==
    \A j \in 1..Len(pattern) : PatternCharMatches(pattern[j], text[start + j - 1])

\* line 244: .str.contains(search_query, case=False, na=False) on one
\* message
StrContains(message, pattern) ==
    /\ ~message.null
    /\ \E start \in 1..(Len(message.text) - Len(pattern) + 1) :
          PatternFoundAt(pattern, message.text, start)

\* lines 242-245
FilterBySearch(rows, query) ==
    IF QueryTruthy(query)
    THEN SelectSeq(rows, LAMBDA r : StrContains(r.message, query.value))
    ELSE rows

RECURSIVE Reversed(_)
Reversed(rows) ==
    IF rows = <<>> THEN <<>> ELSE Append(Reversed(Tail(rows)), Head(rows))

\* the records in the opposite order
ToRecords_Reversed(rows) == Reversed(rows)

\* line 247: to_dict(orient='records')
ToRecords(rows) == rows

\* lines 207-247: what the call does, the value of latest_date, the list
FilterAlerts(alerts, range, type, sev, stat, query) ==
    IF alerts = <<>>
    THEN [kind |-> "returned", latest |-> NoStamp, rows |-> <<>>]
    ELSE LET latest    == LatestStamp(alerts, Len(alerts))
             by_time   == FilterByTime(alerts, range, latest)
             by_type   == FilterByField(by_time, "type", type)
             by_sev    == FilterByField(by_type, "severity", sev)
             by_status == FilterByField(by_sev, "status", stat)
         IN  IF QueryTruthy(query) /\ PatternError(query.value)
             THEN [kind |-> "raised", latest |-> latest, rows |-> <<>>]
             ELSE [kind |-> "returned", latest |-> latest,
                   rows |-> ToRecords(FilterBySearch(by_status, query))]

\* the whole call
FilterAlertsCall ==
    /\ filt_pc = "call"
    /\ LET out == FilterAlerts(all_alerts, time_range, alert_type, severity,
                               status, search_query)
       IN  /\ filt_pc' = out.kind
           /\ latest_date' = out.latest
           /\ filtered_alerts' = out.rows
    /\ UNCHANGED <<all_alerts, time_range, alert_type, severity, status,
                   search_query>>
    /\ UNCHANGED <<rollVars, invVars, anomVars, slowVars, planVars, authVars,
                   prepVars>>

NextFilt == FilterAlertsCall

(***************************************************************************)
(* The inputs of filter_alerts                                             *)
(***************************************************************************)
\* 2024-05-15, the day the alert dates of the model are counted back from
DayD == 19858

\* D, D-1, D-5, D-7, D-10, a day of the month before in the same quarter
\* (2024-04-05), a day of another quarter of the year (2024-01-01), the
\* same day a year before, leap day included (2023-05-15)
DayOffsets == {0, 1, 5, 7, 10, 40, 135, 366}

Morning(day_number) == [date |-> day_number, time |-> 0]

Evening(day_number) == [date |-> day_number, time |-> 1]

TimeStamps ==
    {Morning(DayD - k) : k \in DayOffsets}
        \cup {Evening(DayD), Evening(DayD - WeekDays)}

\* the options of the Time Range select box of Alert_Centre.py, 'All Time'
\* being passed as None
TimeRanges == {"Daily", "Weekly", "Monthly", "Quarterly", "Yearly",
               "Custom Range"}

AlertTypes == {"Low Stock", "Stockout Risk"}

Fields(stamps, types, severities, statuses, messages) ==
    [alert_date : stamps, type : types, severity : severities,
     status : statuses, message : messages]

WithId(fields, k) ==
    [id |-> k, alert_date |-> fields.alert_date, type |-> fields.type,
     severity |-> fields.severity, status |-> fields.status,
     message |-> fields.message]

\* the lists of MaxAlerts alerts at most drawn from the pool
AlertLists(pool) ==
    UNION {{[k \in 1..n |-> WithId(f[k], k)] : f \in [1..n -> pool]} :
           n \in 0..MaxAlerts}

\* alerts dated D-10, D-5, D-1, D
WeeklyExample ==
    [k \in 1..4 |->
        WithId([alert_date |-> Morning(DayD - <<10, 5, 1, 0>>[k]),
                type |-> "Low Stock", severity |-> "High", status |-> "New",
                message |-> Text(<<"a", "b">>)], k)]

FiltEntry ==
    /\ filt_pc = "call"
    /\ latest_date = NoStamp
    /\ filtered_alerts = <<>>
    /\ RollIdle
    /\ InvIdle
    /\ AnomIdle
    /\ SlowIdle
    /\ PlanIdle
    /\ AuthIdle
    /\ PrepIdle

\* calls that differ by the dates of the alerts and the time range
InitFiltTime ==
    /\ all_alerts \in
           AlertLists(Fields(TimeStamps, AlertTypes, {"High"}, {"New"},
                             {Text(<<"a", "b">>)}))
               \cup {WeeklyExample}
    /\ time_range \in {None} \cup {Given(r) : r \in TimeRanges}
    /\ alert_type \in {None, Given("Low Stock")}
    /\ severity = None
    /\ status = None
    /\ search_query = NoQuery
    /\ FiltEntry

\* calls that differ by the fields of the alerts and the criteria on them;
\* every alert has the status 'New' Alert_Centre.py creates it with
InitFiltFields ==
    /\ all_alerts \in
           AlertLists(Fields({Morning(DayD), Morning(DayD - 1)}, AlertTypes,
                             {"High", "Critical"}, {"New"},
                             {NullMessage, Text(<<"a", "B">>)}))
    /\ time_range \in {None, Given("Daily")}
    /\ alert_type \in {None, Given("Low Stock")}
    /\ severity \in {None, Given("High")}
    /\ status \in {None, Given("All"), Given("Resolved")}
    /\ search_query \in {NoQuery, [given |-> TRUE, value |-> <<"A">>]}
    /\ FiltEntry

Strings(alphabet) == UNION {[1..n -> alphabet] : n \in 0..2}

\* calls that differ by the messages and the text typed in the search box
InitFiltSearch ==
    /\ all_alerts \in
           AlertLists(Fields({Morning(DayD)}, {"Low Stock"}, {"High"}, {"New"},
                             {NullMessage}
                                 \cup {Text(t) : t \in Strings({"a", "B", "."})}))
    /\ time_range = None
    /\ alert_type = None
    /\ severity = None
    /\ status = None
    /\ search_query \in
           {NoQuery} \cup {[given |-> TRUE, value |-> q] :
                              q \in Strings({"A", "b", ".", "("})}
    /\ FiltEntry

SpecFiltTime == InitFiltTime /\ [][NextFilt]_vars

SpecFiltFields == InitFiltFields /\ [][NextFilt]_vars

SpecFiltSearch == InitFiltSearch /\ [][NextFilt]_vars

(***************************************************************************)
(* Claims about filter_alerts                                              *)
(***************************************************************************)
FiltReturned == filt_pc = "returned"

\* the ids of the alerts of a list, in its order
RECURSIVE IdsOf(_)
IdsOf(rows) ==
    IF rows = <<>> THEN <<>> ELSE <<Head(rows).id>> \o IdsOf(Tail(rows))

\* the k-th alert of the input is in the output
Kept(k) == \E j \in 1..Len(filtered_alerts) : filtered_alerts[j] = all_alerts[k]

\* the largest alert_date of the whole input
MaxAlertDate ==
    CHOOSE m \in {all_alerts[k].alert_date : k \in 1..Len(all_alerts)} :
        \A k \in 1..Len(all_alerts) :
            \/ all_alerts[k].alert_date.date < m.date
            \/ /\ all_alerts[k].alert_date.date = m.date
               /\ all_alerts[k].alert_date.time <= m.time

\* the alert is of the type asked for, if one is asked for
TypeAsked(k) ==
    alert_type = None \/ alert_type.value = "All"
        \/ all_alerts[k].type = alert_type.value

\* no more than seven days (168 hours) before the timestamp m, the bound
\* included
WithinSevenDays(stamp, m) ==
    \/ m.date - stamp.date < 7
    \/ m.date - stamp.date = 7 /\ stamp.time >= m.time

\* C16: Daily and Weekly are evaluated against the largest alert_date of
\* the whole input, whatever the type filter removes: Daily keeps exactly
\* the alerts of the calendar date of that maximum, Weekly exactly those no
\* more than 7 days before it; of alerts dated D-10, D-5, D-1, D Weekly
\* returns D-5, D-1, D.
C16_DailyWeekly ==
    /\ (FiltReturned /\ all_alerts # <<>> /\ time_range = Given("Daily")) =>
           \A k \in 1..Len(all_alerts) :
               Kept(k) <=> /\ TypeAsked(k)
                           /\ all_alerts[k].alert_date.date = MaxAlertDate.date
    /\ (FiltReturned /\ all_alerts # <<>> /\ time_range = Given("Weekly")) =>
           \A k \in 1..Len(all_alerts) :
               Kept(k) <=> /\ TypeAsked(k)
                           /\ WithinSevenDays(all_alerts[k].alert_date,
                                              MaxAlertDate)
    /\ (FiltReturned /\ all_alerts = WeeklyExample
            /\ time_range = Given("Weekly") /\ alert_type = None) =>
           IdsOf(filtered_alerts) = <<2, 3, 4>>

\* a Weekly call whose type filter removes the latest alert: the other
\* alert, ten days older, is not returned
C16_Witness ==
    /\ FiltReturned
    /\ time_range = Given("Weekly")
    /\ alert_type = Given("Low Stock")
    /\ Len(all_alerts) = 2
    /\ all_alerts[1].type = "Low Stock"
    /\ all_alerts[1].alert_date = Morning(DayD - 10)
    /\ all_alerts[2].type = "Stockout Risk"
    /\ all_alerts[2].alert_date = Morning(DayD)
    /\ filtered_alerts = <<>>

\* the example of the four alerts has been filtered
C16_ExampleWitness ==
    /\ FiltReturned
    /\ all_alerts = WeeklyExample
    /\ time_range = Given("Weekly")
    /\ Len(filtered_alerts) = 3

\* an alert exactly seven days older than the latest one is returned
C16_BoundWitness ==
    /\ FiltReturned
    /\ time_range = Given("Weekly")
    /\ \E k \in 1..Len(all_alerts) :
          /\ Kept(k)
          /\ all_alerts[k].alert_date = Morning(DayD - 7)
          /\ MaxAlertDate = Morning(DayD)

\* two timestamps of the same calendar year
SameYear(a, b) == CivilDate(a.date).year = CivilDate(b.date).year

\* two timestamps of the same month of the same year
SameCalendarMonth(a, b) ==
    SameYear(a, b) /\ CivilDate(a.date).month = CivilDate(b.date).month

\* two timestamps of the same quarter of the same year
SameCalendarQuarter(a, b) ==
    /\ SameYear(a, b)
    /\ (CivilDate(a.date).month - 1) \div 3 = (CivilDate(b.date).month - 1) \div 3

\* C17: Monthly (Quarterly, Yearly) keeps exactly the alerts of the calendar
\* month (quarter, year) of the largest alert_date of the input; an alert of
\* the same month or quarter number of another year is not returned.
C17_SameCalendarPeriod ==
    (FiltReturned /\ all_alerts # <<>>) =>
        \A k \in 1..Len(all_alerts) :
            LET stamp == all_alerts[k].alert_date
            IN  /\ time_range = Given("Monthly") =>
                       (Kept(k) <=> /\ TypeAsked(k)
                                    /\ SameCalendarMonth(stamp, MaxAlertDate))
                /\ time_range = Given("Quarterly") =>
                       (Kept(k) <=> /\ TypeAsked(k)
                                    /\ SameCalendarQuarter(stamp, MaxAlertDate))
                /\ time_range = Given("Yearly") =>
                       (Kept(k) <=> /\ TypeAsked(k)
                                    /\ SameYear(stamp, MaxAlertDate))

\* a Monthly call returns the alert of 2023-05-15 with that of 2024-05-15
C17_OtherYearReturned ==
    /\ FiltReturned
    /\ time_range = Given("Monthly")
    /\ Len(all_alerts) = 2
    /\ all_alerts[1].alert_date = Morning(DayD - 366)
    /\ CivilDate(DayD - 366) = [year |-> 2023, month |-> 5, day |-> 15]
    /\ all_alerts[2].alert_date = Morning(DayD)
    /\ CivilDate(DayD) = [year |-> 2024, month |-> 5, day |-> 15]
    /\ Len(filtered_alerts) = 2

\* Yearly alone follows the calendar year
C17_YearlyHolds ==
    (FiltReturned /\ all_alerts # <<>> /\ time_range = Given("Yearly")) =>
        \A k \in 1..Len(all_alerts) :
            Kept(k) <=> /\ TypeAsked(k)
                        /\ SameYear(all_alerts[k].alert_date, MaxAlertDate)

\* the alert has the value asked for in the field, if one is asked for
FieldAsked(k, field, arg) ==
    arg = None \/ arg.value = "All" \/ all_alerts[k][field] = arg.value

\* the alert is of the calendar date of the latest alert, if Daily is asked
DailyAsked(k) ==
    time_range = Given("Daily") =>
        all_alerts[k].alert_date.date = MaxAlertDate.date

\* the text has the letter a, in either case
HasLetterA(message) ==
    ~message.null /\ \E j \in 1..Len(message.text) : message.text[j] \in {"a", "A"}

\* the message has the letter searched for, if one is searched for
LetterAsked(k) ==
    search_query = [given |-> TRUE, value |-> <<"A">>] =>
        HasLetterA(all_alerts[k].message)

C18_NoMatchWitness ==
    /\ FiltReturned
    /\ status = Given("Resolved")
    /\ all_alerts # <<>>
    /\ filtered_alerts = <<>>

\* the query, letter for letter whatever the case, at a position of the text
LiteralAt(query, text, start) ==
    \A j \in 1..Len(query) : Lower(query[j]) = Lower(text[start + j - 1])

\* the query is a substring of the message, whatever the case
LiteralSubstring(message, query) ==
    /\ ~message.null
    /\ \E start \in 1..(Len(message.text) - Len(query) + 1) :
          LiteralAt(query, message.text, start)

\* C19: with a search query, whatever its characters, the call returns, and
\* an alert is returned if and only if the query is a substring of its
\* message, case ignored, taken character for character; an alert with a
\* null message is not returned.
C19_LiteralSubstring ==
    /\ filt_pc # "raised"
    /\ (FiltReturned /\ QueryTruthy(search_query)) =>
           \A k \in 1..Len(all_alerts) :
               Kept(k) <=> LiteralSubstring(all_alerts[k].message,
                                            search_query.value)

\* the query '.' returns an alert whose message has no '.'
C19_DotReturnsAny ==
    /\ FiltReturned
    /\ search_query = [given |-> TRUE, value |-> <<".">>]
    /\ Len(all_alerts) = 1
    /\ all_alerts[1].message = Text(<<"a">>)
    /\ filtered_alerts = all_alerts

\* the query '(' ends the call with an error
C19_ParenthesisRaises ==
    /\ filt_pc = "raised"
    /\ search_query = [given |-> TRUE, value |-> <<"(">>]

\* of queries made of letters the claim holds
C19_LettersHold ==
    (FiltReturned /\ QueryTruthy(search_query)
        /\ \A j \in 1..Len(search_query.value) :
               search_query.value[j] \in {"A", "b"}) =>
        \A k \in 1..Len(all_alerts) :
            Kept(k) <=> LiteralSubstring(all_alerts[k].message,
                                         search_query.value)

\* the ids go up along the list
Ascending(ids) == \A a, b \in 1..Len(ids) : a < b => ids[a] < ids[b]

\* every alert of the output is the alert of the input that has its id, and
\* the alerts come in the order of the input
SubSequenceOfInput ==
    /\ \A j \in 1..Len(filtered_alerts) :
          /\ filtered_alerts[j].id \in 1..Len(all_alerts)
          /\ filtered_alerts[j] = all_alerts[filtered_alerts[j].id]
    /\ Ascending(IdsOf(filtered_alerts))

\* nothing is asked for
NoCriterion ==
    /\ ~Truthy(time_range)
    /\ ~Truthy(alert_type)
    /\ ~Truthy(severity)
    /\ ~Truthy(status)
    /\ ~QueryTruthy(search_query)

C20_NoCriterionWitness ==
    /\ FiltReturned
    /\ NoCriterion
    /\ Len(all_alerts) = 2
    /\ filtered_alerts = all_alerts

(***************************************************************************)
(* The inventory planning functions of utils/forecast_helper.py            *)
(*                                                                         *)
(* Daily sales, their standard deviation, days and stock are whole         *)
(* numbers.  A service level is in hundredths.  A safety stock, and every  *)
(* result, is in millionths of a unit (Unit is one unit): it is the        *)
(* product of a normal quantile and a square root kept to three decimals   *)
(* each.                                                                   *)
(***************************************************************************)
MaxLead == 2   \* longest lead time

Unit == 1000 * 1000

\* the quantile of the other tail
NormPpf_UpperTail(service_level) ==
    CASE service_level = 5  -> 1645
      [] service_level = 10 -> 1282
      [] service_level = 50 -> 0
      [] service_level = 90 -> -1282
      [] service_level = 95 -> -1645

\* line 242: norm.ppf(service_level), in thousandths, of the levels of
\* the model
NormPpf(service_level) ==
    CASE service_level = 5  -> -1645
      [] service_level = 10 -> -1282
      [] service_level = 50 -> 0
      [] service_level = 90 -> 1282
      [] service_level = 95 -> 1645

RECURSIVE SqrtBetween(_, _, _)
\* the largest r of lo..hi with r * r <= x
SqrtBetween(x, lo, hi) ==
    IF lo = hi THEN lo
    ELSE LET mid == (lo + hi + 1) \div 2
         IN  IF mid * mid <= x THEN SqrtBetween(x, mid, hi)
             ELSE SqrtBetween(x, lo, mid - 1)

\* line 243: np.sqrt(lead_time), in thousandths
SqrtThousandths(lead_time) == SqrtBetween(lead_time * Unit, 0, 1000 * lead_time)

\* max(0.0, x)
MaxZero(x) == IF x > 0 THEN x ELSE 0

\* the product as it is
calculate_safety_stock_NoFloor(avg_daily_sales, std_daily_sales, lead_time, service_level) ==
    IF \/ std_daily_sales <= 0
       \/ lead_time <= 0
       \/ service_level <= 0
       \/ service_level >= 100
    THEN 0
    ELSE NormPpf(service_level) * (std_daily_sales * SqrtThousandths(lead_time))

\* lines 235-246
calculate_safety_stock(avg_daily_sales, std_daily_sales, lead_time, service_level) ==
    IF \/ std_daily_sales <= 0
       \/ lead_time <= 0
       \/ service_level <= 0
       \/ service_level >= 100
    THEN 0
    ELSE LET z_score           == NormPpf(service_level)
             std_dev_lead_time == std_daily_sales * SqrtThousandths(lead_time)
             safety_stock      == z_score * std_dev_lead_time
         IN  MaxZero(safety_stock)

\* the safety stock taken off
calculate_reorder_point_Minus(avg_daily_sales, lead_time, safety_stock) ==
    IF avg_daily_sales < 0 \/ lead_time < 0
    THEN 0
    ELSE MaxZero((avg_daily_sales * lead_time) * Unit - safety_stock)

\* lines 248-257
calculate_reorder_point(avg_daily_sales, lead_time, safety_stock) ==
    IF avg_daily_sales < 0 \/ lead_time < 0
    THEN 0
    ELSE LET reorder_point == (avg_daily_sales * lead_time) * Unit + safety_stock
         IN  MaxZero(reorder_point)

\* the stock on hand taken off
calculate_order_quantity_LessStock(avg_daily_sales, target_stock_days, current_stock, safety_stock) ==
    IF avg_daily_sales < 0 \/ target_stock_days < 0
    THEN 0
    ELSE MaxZero((avg_daily_sales * target_stock_days) * Unit + safety_stock
                     - current_stock * Unit)

\* lines 259-268
calculate_order_quantity(avg_daily_sales, target_stock_days, current_stock, safety_stock) ==
    IF avg_daily_sales < 0 \/ target_stock_days < 0
    THEN 0
    ELSE LET suggested_qty ==
                 (avg_daily_sales * target_stock_days) * Unit + safety_stock
         IN  MaxZero(suggested_qty)

\* the arguments of the calls of the model
SalesArgs == {-1, 0, 2}

StdArgs == {-1, 0, 1, 3}

LeadArgs == -1..MaxLead

ServiceLevels == {-10, 0, 10, 50, 95, 100}

ValidServiceLevels == {10, 50, 90, 95}

SafetyArgs == {-3 * Unit, 0, Unit}

TargetDays == {-1, 0, 30}

StockArgs == {0, 5}

\* what is recorded of a call: the function, the arguments, the result
SafetyStockCall(avg, std, lead, level) ==
    [fn |-> "safety_stock", avg_daily_sales |-> avg, std_daily_sales |-> std,
     lead_time |-> lead, service_level |-> level,
     result |-> calculate_safety_stock(avg, std, lead, level)]

ReorderPointCall(avg, lead, ss) ==
    [fn |-> "reorder_point", avg_daily_sales |-> avg, lead_time |-> lead,
     safety_stock |-> ss, result |-> calculate_reorder_point(avg, lead, ss)]

OrderQuantityCall(avg, days, stock, ss) ==
    [fn |-> "order_quantity", avg_daily_sales |-> avg,
     target_stock_days |-> days, current_stock |-> stock, safety_stock |-> ss,
     result |-> calculate_order_quantity(avg, days, stock, ss)]

\* lines 326-328: the safety stock, the reorder point that is given it and
\* the order quantity for 30 days that is given it too
InventoryPlan(avg_daily, std_daily, lead_t, svc_lvl) ==
    LET ss == calculate_safety_stock(avg_daily, std_daily, lead_t, svc_lvl)
        rp == calculate_reorder_point(avg_daily, lead_t, ss)
        oq == calculate_order_quantity(avg_daily, 30, 0, ss)
    IN  [fn |-> "plan", avg_daily_sales |-> avg_daily,
         std_daily_sales |-> std_daily, lead_time |-> lead_t,
         service_level |-> svc_lvl, ss |-> ss, rp |-> rp, oq |-> oq]

\* a run of the model makes two calls
CalculateSafetyStock ==
    /\ plan_prev = NoPlanCall
    /\ \E avg \in {0, 2}, std \in StdArgs, lead \in LeadArgs,
          level \in ServiceLevels :
           plan_last' = SafetyStockCall(avg, std, lead, level)
    /\ plan_prev' = plan_last
    /\ UNCHANGED <<rollVars, invVars, anomVars, slowVars, filtVars, authVars,
                   prepVars>>

CalculateReorderPoint ==
    /\ plan_prev = NoPlanCall
    /\ \E avg \in SalesArgs, lead \in LeadArgs, ss \in SafetyArgs :
           plan_last' = ReorderPointCall(avg, lead, ss)
    /\ plan_prev' = plan_last
    /\ UNCHANGED <<rollVars, invVars, anomVars, slowVars, filtVars, authVars,
                   prepVars>>

CalculateOrderQuantity ==
    /\ plan_prev = NoPlanCall
    /\ \E avg \in SalesArgs, days \in TargetDays, stock \in StockArgs,
          ss \in SafetyArgs :
           plan_last' = OrderQuantityCall(avg, days, stock, ss)
    /\ plan_prev' = plan_last
    /\ UNCHANGED <<rollVars, invVars, anomVars, slowVars, filtVars, authVars,
                   prepVars>>

PlanInventory ==
    /\ plan_prev = NoPlanCall
    /\ \E avg_daily \in {0, 2}, std_daily \in {1, 3}, lead_t \in 1..MaxLead,
          svc_lvl \in ValidServiceLevels :
           plan_last' = InventoryPlan(avg_daily, std_daily, lead_t, svc_lvl)
    /\ plan_prev' = plan_last
    /\ UNCHANGED <<rollVars, invVars, anomVars, slowVars, filtVars, authVars,
                   prepVars>>

InitPlan ==
    /\ PlanIdle
    /\ RollIdle
    /\ InvIdle
    /\ AnomIdle
    /\ SlowIdle
    /\ FiltIdle
    /\ AuthIdle
    /\ PrepIdle

NextPlan ==
    \/ CalculateSafetyStock
    \/ CalculateReorderPoint
    \/ CalculateOrderQuantity
    \/ PlanInventory

SpecPlan == InitPlan /\ [][NextPlan]_vars

(***************************************************************************)
(* Claims about the inventory planning functions                           *)
(***************************************************************************)
\* the calls made so far
PlanCalls == {plan_prev, plan_last} \ {NoPlanCall}

CallsOf(fn) == {c \in PlanCalls : c.fn = fn}

\* the arguments calculate_safety_stock takes for invalid
InvalidForSafetyStock(c) ==
    \/ c.std_daily_sales <= 0
    \/ c.lead_time <= 0
    \/ c.service_level <= 0
    \/ c.service_level >= 100

\* C21: calculate_safety_stock returns 0 when std_daily_sales <= 0,
\* lead_time <= 0, service_level <= 0 or service_level >= 1; of valid
\* arguments its result is not negative, and is 0 for a service level
\* below 0.5, whose quantile is negative.
C21_SafetyStockFloor ==
    \A c \in CallsOf("safety_stock") :
        /\ InvalidForSafetyStock(c) => c.result = 0
        /\ c.result >= 0
        /\ (~InvalidForSafetyStock(c) /\ c.service_level < 50) => c.result = 0

\* a call with valid arguments and the service level 0.1 has returned 0
C21_Witness ==
    /\ plan_last.fn = "safety_stock"
    /\ plan_last.std_daily_sales = 3
    /\ plan_last.lead_time = 2
    /\ plan_last.service_level = 10
    /\ plan_last.result = 0

\* a call with the standard deviation 0 has returned 0
C21_InvalidWitness ==
    /\ plan_last.fn = "safety_stock"
    /\ plan_last.std_daily_sales = 0
    /\ plan_last.lead_time = 2
    /\ plan_last.service_level = 95
    /\ plan_last.result = 0

\* a call with valid arguments and the service level 0.95 has returned
\* 1.645 * 3 * 1.414
C21_PositiveWitness ==
    /\ plan_last.fn = "safety_stock"
    /\ plan_last.std_daily_sales = 3
    /\ plan_last.lead_time = 2
    /\ plan_last.service_level = 95
    /\ plan_last.result = 1645 * 3 * 1414

\* max(0, sales * days + safety_stock), in millionths
FlooredSum(sales, days, safety_stock) ==
    IF sales * days * Unit + safety_stock > 0
    THEN sales * days * Unit + safety_stock
    ELSE 0

\* C22, as claimed: calculate_reorder_point returns
\* max(0, avg_daily_sales * lead_time + safety_stock) when its arguments are
\* not negative and 0 when one of them, the safety stock included, is
\* negative; calculate_order_quantity called without current_stock does the
\* same with target_stock_days; neither returns a negative number.
C22_ZeroOnAnyNegativeInput ==
    /\ \A c \in CallsOf("reorder_point") :
          /\ c.result >= 0
          /\ (c.avg_daily_sales >= 0 /\ c.lead_time >= 0 /\ c.safety_stock >= 0)
                 => c.result = FlooredSum(c.avg_daily_sales, c.lead_time,
                                          c.safety_stock)
          /\ (c.avg_daily_sales < 0 \/ c.lead_time < 0 \/ c.safety_stock < 0)
                 => c.result = 0
    /\ \A c \in CallsOf("order_quantity") :
          /\ c.result >= 0
          /\ c.current_stock = 0 =>
                /\ (/\ c.avg_daily_sales >= 0
                    /\ c.target_stock_days >= 0
                    /\ c.safety_stock >= 0)
                       => c.result = FlooredSum(c.avg_daily_sales,
                                                c.target_stock_days,
                                                c.safety_stock)
                /\ (\/ c.avg_daily_sales < 0
                    \/ c.target_stock_days < 0
                    \/ c.safety_stock < 0) => c.result = 0

\* C22, amended: calculate_reorder_point returns 0 when avg_daily_sales or
\* lead_time is negative and max(0, avg_daily_sales * lead_time +
\* safety_stock) otherwise, a negative safety stock included;
\* calculate_order_quantity called without current_stock does the same with
\* target_stock_days; neither returns a negative number.
C22_ZeroOnNegativeSalesOrDays ==
    /\ \A c \in CallsOf("reorder_point") :
          /\ c.result >= 0
          /\ (c.avg_daily_sales >= 0 /\ c.lead_time >= 0)
                 => c.result = FlooredSum(c.avg_daily_sales, c.lead_time,
                                          c.safety_stock)
          /\ (c.avg_daily_sales < 0 \/ c.lead_time < 0) => c.result = 0
    /\ \A c \in CallsOf("order_quantity") :
          /\ c.result >= 0
          /\ c.current_stock = 0 =>
                /\ (c.avg_daily_sales >= 0 /\ c.target_stock_days >= 0)
                       => c.result = FlooredSum(c.avg_daily_sales,
                                                c.target_stock_days,
                                                c.safety_stock)
                /\ (c.avg_daily_sales < 0 \/ c.target_stock_days < 0)
                       => c.result = 0

\* the reorder point of 2 a day, 2 days and the safety stock -3 is 1
C22_Witness ==
    /\ plan_last.fn = "reorder_point"
    /\ plan_last.avg_daily_sales = 2
    /\ plan_last.lead_time = 2
    /\ plan_last.safety_stock = -3 * Unit
    /\ plan_last.result = Unit

\* the order quantity of -1 a day for 30 days is 0
C22_NegativeSalesWitness ==
    /\ plan_last.fn = "order_quantity"
    /\ plan_last.avg_daily_sales = -1
    /\ plan_last.target_stock_days = 30
    /\ plan_last.current_stock = 0
    /\ plan_last.result = 0

\* the order quantity of 2 a day for 30 days and the safety stock 1 is 61
C22_OrderWitness ==
    /\ plan_last.fn = "order_quantity"
    /\ plan_last.avg_daily_sales = 2
    /\ plan_last.target_stock_days = 30
    /\ plan_last.current_stock = 0
    /\ plan_last.safety_stock = Unit
    /\ plan_last.result = 61 * Unit

\* two plans that differ by the service level at most, the second with the
\* higher one
LevelRaised(a, b) ==
    /\ a.fn = "plan"
    /\ b.fn = "plan"
    /\ a.avg_daily_sales = b.avg_daily_sales
    /\ a.std_daily_sales = b.std_daily_sales
    /\ a.lead_time = b.lead_time
    /\ a.service_level <= b.service_level

\* C23: with avg_daily_sales >= 0, std_daily_sales > 0 and lead_time > 0
\* the same, the reorder point computed from the safety stock of a service
\* level is not lower than the one computed from the safety stock of a
\* lower service level.
C23_ReorderPointMonotone ==
    /\ LevelRaised(plan_prev, plan_last) => plan_prev.rp <= plan_last.rp
    /\ LevelRaised(plan_last, plan_prev) => plan_last.rp <= plan_prev.rp

\* the service level was raised from 0.5 to 0.95 and the reorder point rose
C23_Witness ==
    /\ LevelRaised(plan_prev, plan_last)
    /\ plan_prev.service_level = 50
    /\ plan_last.service_level = 95
    /\ plan_prev.rp < plan_last.rp

\* the service level was raised from 0.1 to 0.5 and the reorder point stayed
C23_FloorWitness ==
    /\ LevelRaised(plan_prev, plan_last)
    /\ plan_prev.service_level = 10
    /\ plan_last.service_level = 50
    /\ plan_prev.rp = plan_last.rp

\* two calls of calculate_order_quantity that differ by current_stock only
OnlyStockDiffers(a, b) ==
    /\ a.fn = "order_quantity"
    /\ b.fn = "order_quantity"
    /\ a.avg_daily_sales = b.avg_daily_sales
    /\ a.target_stock_days = b.target_stock_days
    /\ a.safety_stock = b.safety_stock
    /\ a.current_stock # b.current_stock

MaxCalls == 3   \* most calls of a process that runs alone

\* characters of an entry of the dumped dict besides the username: the
\* indentation of 4, the quotes, the colon, the 64 digits of the hash, the
\* comma or the closing brace, the line ends
EntryChars == 76

\* line 12: the digest, which tells the passwords of the model apart
hash_password(password) == <<"sha256", password>>

\* the file just opened for writing: it is there and holds nothing
EmptyFile == [exists |-> TRUE, size |-> 0, valid |-> FALSE, users |-> EmptyUsers]

RECURSIVE SumNameChars(_)
SumNameChars(names) ==
    IF names = {} THEN 0
    ELSE LET u == CHOOSE x \in names : TRUE
         IN  Len(u) + EntryChars + SumNameChars(names \ {u})

\* the length of json.dumps(users, indent=4)
TextSize(users_dict) == 2 + SumNameChars(DOMAIN users_dict)

\* the file that holds the dumped dict and nothing else
FileOf(users_dict) ==
    [exists |-> TRUE, size |-> TextSize(users_dict), valid |-> TRUE,
     users |-> users_dict]

\* the text of the dict written from the start of the file: a longer text
\* that was there keeps its end, and the file is no JSON text
WriteText(file, users_dict) ==
    IF TextSize(users_dict) >= file.size
    THEN FileOf(users_dict)
    ELSE [exists |-> TRUE, size |-> file.size, valid |-> FALSE,
          users |-> EmptyUsers]

\* the new dict with the administrator alone
SeedAdmin_Fresh(users_dict) == "admin" :> hash_password("1234")

\* line 25
SeedAdmin(users_dict) == ("admin" :> hash_password("1234")) @@ users_dict

\* every name taken for new
IsRegistered_Never(username, users_dict) == FALSE

\* line 38: username in users
IsRegistered(username, users_dict) == username \in DOMAIN users_dict

\* the dict left as it is
AddUser_Nothing(users_dict, username, password) == users_dict

\* line 40
AddUser(users_dict, username, password) ==
    (username :> hash_password(password)) @@ users_dict

\* line 49: users.get(username) == hash_password(password)
PasswordMatches(users_dict, username, password) ==
    /\ username \in DOMAIN users_dict
    /\ users_dict[username] = hash_password(password)

\* the call a process is making
CurrentCall(p) == Head(todo[p])

\* the call of the process ends and returns, or raises, the outcome
EndCall(p, outcome) ==
    /\ done' = [done EXCEPT ![p] = Append(@, [call |-> CurrentCall(p),
                                              outcome |-> outcome])]
    /\ todo' = [todo EXCEPT ![p] = Tail(@)]
    /\ auth_pc' = [auth_pc EXCEPT ![p] = "idle"]

\* load_users has returned the dict to register_user or verify_login, and
\* the caller goes on to its return or to save_users
AfterLoad(p, users_dict) ==
    LET call == CurrentCall(p)
    IN  IF call.op = "verify_login"
        THEN /\ EndCall(p, IF PasswordMatches(users_dict, call.username,
                                              call.password)
                           THEN "True" ELSE "False")
             /\ local_users' = [local_users EXCEPT ![p] = users_dict]
        ELSE IF IsRegistered(call.username, users_dict)
        THEN /\ EndCall(p, "False")
             /\ local_users' = [local_users EXCEPT ![p] = users_dict]
        ELSE /\ local_users' =
                    [local_users EXCEPT
                        ![p] = AddUser(users_dict, call.username, call.password)]
             /\ auth_pc' = [auth_pc EXCEPT ![p] = "save_open"]
             /\ UNCHANGED <<todo, done>>

\* line 18: a process begins its next call, which calls load_users
CheckExists(p) ==
    /\ auth_pc[p] = "idle"
    /\ todo[p] # <<>>
    /\ auth_pc' = [auth_pc EXCEPT
                      ![p] = IF users_file.exists THEN "read" ELSE "create_open"]
    /\ UNCHANGED <<users_file, todo, done, local_users, loaded, history>>
    /\ UNCHANGED <<rollVars, invVars, anomVars, slowVars, filtVars, planVars,
                   prepVars>>

\* line 19
CreateOpen(p) ==
    /\ auth_pc[p] = "create_open"
    /\ users_file' = EmptyFile
    /\ auth_pc' = [auth_pc EXCEPT ![p] = "create_dump"]
    /\ UNCHANGED <<todo, done, local_users, loaded, history>>
    /\ UNCHANGED <<rollVars, invVars, anomVars, slowVars, filtVars, planVars,
                   prepVars>>

\* line 20, and the end of the `with` block
CreateDump(p) ==
    /\ auth_pc[p] = "create_dump"
    /\ users_file' = WriteText(users_file, EmptyUsers)
    /\ auth_pc' = [auth_pc EXCEPT ![p] = "read"]
    /\ UNCHANGED <<todo, done, local_users, loaded, history>>
    /\ UNCHANGED <<rollVars, invVars, anomVars, slowVars, filtVars, planVars,
                   prepVars>>

\* lines 21-27: json.load raises on a text that is no JSON; a dict without
\* 'admin' is given it and goes to save_users; a dict with it is returned
ReadUsers(p) ==
    /\ auth_pc[p] = "read"
    /\ IF ~users_file.valid
       THEN /\ EndCall(p, "raised")
            /\ UNCHANGED <<local_users, loaded, history>>
       ELSE /\ loaded' = [loaded EXCEPT ![p] = users_file.users]
            /\ history' = Append(history, [proc |-> p, op |-> "load"])
            /\ IF "admin" \notin DOMAIN users_file.users
               THEN /\ local_users' =
                           [local_users EXCEPT ![p] = SeedAdmin(users_file.users)]
                    /\ auth_pc' = [auth_pc EXCEPT ![p] = "seed_open"]
                    /\ UNCHANGED <<todo, done>>
               ELSE AfterLoad(p, users_file.users)
    /\ UNCHANGED users_file
    /\ UNCHANGED <<rollVars, invVars, anomVars, slowVars, filtVars, planVars,
                   prepVars>>

\* line 30, for load_users (line 26) or register_user (line 41)
SaveOpen(p) ==
    /\ auth_pc[p] \in {"seed_open", "save_open"}
    /\ users_file' = EmptyFile
    /\ auth_pc' = [auth_pc EXCEPT
                      ![p] = IF @ = "seed_open" THEN "seed_dump" ELSE "save_dump"]
    /\ history' = Append(history, [proc |-> p, op |-> "open"])
    /\ UNCHANGED <<todo, done, local_users, loaded>>
    /\ UNCHANGED <<rollVars, invVars, anomVars, slowVars, filtVars, planVars,
                   prepVars>>

\* line 31 and the end of the `with` block; then load_users returns
\* (line 27) or register_user returns True (line 42)
SaveDump(p) ==
    /\ auth_pc[p] \in {"seed_dump", "save_dump"}
    /\ users_file' = WriteText(users_file, local_users[p])
    /\ history' = Append(history, [proc |-> p, op |-> "save"])
    /\ IF auth_pc[p] = "seed_dump"
       THEN AfterLoad(p, local_users[p])
       ELSE EndCall(p, "True") /\ UNCHANGED local_users
    /\ UNCHANGED loaded
    /\ UNCHANGED <<rollVars, invVars, anomVars, slowVars, filtVars, planVars,
                   prepVars>>

NextAuth ==
    \E p \in Procs :
        \/ CheckExists(p)
        \/ CreateOpen(p)
        \/ CreateDump(p)
        \/ ReadUsers(p)
        \/ SaveOpen(p)
        \/ SaveDump(p)

(***************************************************************************)
(* The runs of the credential store                                        *)
(***************************************************************************)
Passwords == {"1234", "pw"}

AuthCalls(usernames, passwords) ==
    [op : {"register_user", "verify_login"}, username : usernames,
     password : passwords]

\* the store before the run: no file, the empty dict, a dict with one
\* account and no administrator, the dict a first use leaves
FirstStores ==
    {MissingFile, FileOf(EmptyUsers), FileOf("bob" :> hash_password("pw")),
     FileOf(SeedAdmin(EmptyUsers))}

AuthEntry ==
    /\ done = [p \in Procs |-> <<>>]
    /\ auth_pc = [p \in Procs |-> "idle"]
    /\ local_users = [p \in Procs |-> EmptyUsers]
    /\ loaded = [p \in Procs |-> EmptyUsers]
    /\ history = <<>>
    /\ RollIdle
    /\ InvIdle
    /\ AnomIdle
    /\ SlowIdle
    /\ FiltIdle
    /\ PlanIdle
    /\ PrepIdle

\* one process makes MaxCalls calls at most, the other none
InitAuthAlone ==
    /\ users_file \in FirstStores
    /\ \E calls \in UNION {[1..n -> AuthCalls({"admin", "bob"}, Passwords)] :
                            n \in 0..MaxCalls} :
           todo = [p \in Procs |-> IF p = 1 THEN calls ELSE <<>>]
    /\ AuthEntry

\* two processes make one call each, at the same time
InitAuthTwo ==
    /\ users_file \in FirstStores
    /\ todo \in [Procs -> {<<c>> : c \in AuthCalls({"bob", "al", "eve"}, {"pw"})}]
    /\ AuthEntry

SpecAuthAlone == InitAuthAlone /\ [][NextAuth]_vars

SpecAuthTwo == InitAuthTwo /\ [][NextAuth]_vars

(***************************************************************************)
(* Claims about the credential store                                       *)
(***************************************************************************)
\* the one call of a process of the two-process runs, once made
OnlyCall(p) == done[p][1]

\* the places of the events of a kind in the history
EventsOf(op) == {k \in 1..Len(history) : history[k].op = op}

\* both processes have registered a username that the dict they loaded did
\* not have, and the two usernames differ
BothRegisteredNew ==
    /\ \A p \in Procs :
          /\ todo[p] = <<>>
          /\ Len(done[p]) = 1
          /\ OnlyCall(p).call.op = "register_user"
          /\ OnlyCall(p).outcome # "raised"
          /\ OnlyCall(p).call.username \notin DOMAIN loaded[p]
    /\ OnlyCall(1).call.username # OnlyCall(2).call.username

\* both processes loaded the store before either began a save
LoadsBeforeSaves ==
    /\ Cardinality(EventsOf("load")) = 2
    /\ \A a \in EventsOf("load"), b \in EventsOf("open") : a < b

\* the process whose save ended last, and the other one
LastSaver == history[Len(history)].proc

FirstSaver == CHOOSE p \in Procs : p # LastSaver

\* a save was begun by one process while a save of the other was under way
SavesOverlap ==
    \E a \in EventsOf("open"), b \in EventsOf("open"), c \in EventsOf("save") :
        /\ a < b
        /\ b < c
        /\ history[a].proc = history[c].proc
        /\ history[b].proc # history[a].proc
        /\ \A k \in (a + 1)..(c - 1) :
              ~(history[k].op = "save" /\ history[k].proc = history[a].proc)

\* C24, as claimed: when two register_user calls for two distinct new
\* usernames have both loaded the store before either saves, both return
\* True and the store ends with the username of the last save and without
\* the other.
C24_LastWriterWins ==
    (BothRegisteredNew /\ LoadsBeforeSaves) =>
        /\ \A p \in Procs : OnlyCall(p).outcome = "True"
        /\ users_file.valid
        /\ OnlyCall(LastSaver).call.username \in DOMAIN users_file.users
        /\ OnlyCall(FirstSaver).call.username \notin DOMAIN users_file.users

\* C24, amended: in such a run both calls return True and the username of
\* the save that ended first is lost; the store ends with the username of
\* the last save, unless the saves overlapped and left a text that is no
\* JSON.
C24_LostRegistration ==
    (BothRegisteredNew /\ LoadsBeforeSaves) =>
        /\ \A p \in Procs : OnlyCall(p).outcome = "True"
        /\ OnlyCall(FirstSaver).call.username \notin DOMAIN users_file.users
        /\ users_file.valid =>
               OnlyCall(LastSaver).call.username \in DOMAIN users_file.users
        /\ ~users_file.valid => SavesOverlap

\* both registrations returned True and the store has the last one only
C24_Witness ==
    /\ BothRegisteredNew
    /\ LoadsBeforeSaves
    /\ OnlyCall(1).outcome = "True"
    /\ OnlyCall(2).outcome = "True"
    /\ LastSaver = 2
    /\ users_file.valid
    /\ OnlyCall(2).call.username \in DOMAIN users_file.users
    /\ OnlyCall(1).call.username \notin DOMAIN users_file.users

\* both registrations returned True and the store is no JSON text
C24_BrokenStoreWitness ==
    /\ BothRegisteredNew
    /\ LoadsBeforeSaves
    /\ SavesOverlap
    /\ ~users_file.valid

\* load_users has returned to the process that runs alone: it is about to
\* save a registration, or its call is over
LoadReturned ==
    \/ auth_pc[1] = "save_open"
    \/ auth_pc[1] = "idle" /\ done[1] # <<>>

\* the process that runs alone ends the save of the seeding
SeedingSaved == auth_pc[1] = "seed_dump" /\ auth_pc'[1] # "seed_dump"

\* C25: in a run of one process from a missing store, an empty one or one
\* without administrator, the store holds the username 'admin' once
\* load_users has returned, and the save of the seeding leaves every
\* account that was loaded as it was and adds 'admin' only.
C25_AdminSeeded ==
    /\ [](LoadReturned =>
            /\ users_file.valid
            /\ "admin" \in DOMAIN users_file.users)
    /\ [][SeedingSaved =>
            /\ users_file'.valid
            /\ DOMAIN users_file'.users = DOMAIN loaded[1] \cup {"admin"}
            /\ \A u \in DOMAIN loaded[1] : users_file'.users[u] = loaded[1][u]]_vars

\* the store had the account bob alone; after the first call it has bob,
\* with the password it had, and admin
C25_Witness ==
    /\ LoadReturned
    /\ loaded[1] = ("bob" :> hash_password("pw"))
    /\ Len(done[1]) = 1
    /\ DOMAIN users_file.users = {"admin", "bob"}
    /\ users_file.users["bob"] = hash_password("pw")

\* the store was missing; after a verify_login it holds admin
C25_MissingStoreWitness ==
    /\ Len(done[1]) = 1
    /\ done[1][1].call.op = "verify_login"
    /\ Len(history) = 3
    /\ loaded[1] = EmptyUsers
    /\ DOMAIN users_file.users = {"admin"}

\* the calls of the process that runs alone are over, one at least was made
CallOver == auth_pc[1] = "idle" /\ done[1] # <<>>

\* the latest call of the process that runs alone
LatestCall == done[1][Len(done[1])]

\* the dict load_users returned to the latest call
LoadedWithAdmin ==
    IF "admin" \in DOMAIN loaded[1] THEN loaded[1]
    ELSE [u \in DOMAIN loaded[1] \cup {"admin"} |->
             IF u = "admin" THEN hash_password("1234") ELSE loaded[1][u]]

\* the places of the registrations of a username that returned True
Registrations(username) ==
    {k \in 1..Len(done[1]) :
        /\ done[1][k].call.op = "register_user"
        /\ done[1][k].call.username = username
        /\ done[1][k].outcome = "True"}

\* the password of the first of them
FirstPassword(username) ==
    LET first == CHOOSE k \in Registrations(username) :
                     \A j \in Registrations(username) : k <= j
    IN  done[1][first].call.password

\* C30: in a run of one process, register_user for a username the store
\* has, 'admin' included, returns False and leaves the store as it was; a
\* username is registered once at most; verify_login of a registered
\* username returns True for the password of its first registration and
\* for no other, and verify_login of 'admin' for '1234' and for no other.
C30_FirstRegistrationKept ==
    CallOver =>
        /\ (/\ LatestCall.call.op = "register_user"
            /\ LatestCall.call.username \in DOMAIN LoadedWithAdmin)
               => /\ LatestCall.outcome = "False"
                  /\ users_file = FileOf(LoadedWithAdmin)
        /\ \A u \in {"admin", "bob"} : Cardinality(Registrations(u)) <= 1
        /\ Registrations("admin") = {}
        /\ (/\ LatestCall.call.op = "verify_login"
            /\ Registrations(LatestCall.call.username) # {})
               => (LatestCall.outcome = "True"
                      <=> LatestCall.call.password
                              = FirstPassword(LatestCall.call.username))
        /\ (/\ LatestCall.call.op = "verify_login"
            /\ LatestCall.call.username = "admin")
               => (LatestCall.outcome = "True"
                      <=> LatestCall.call.password = "1234")

\* bob was registered with 'pw', then refused with '1234'; 'pw' verifies
C30_Witness ==
    /\ CallOver
    /\ Len(done[1]) = 3
    /\ done[1][1] = [call |-> [op |-> "register_user", username |-> "bob",
                               password |-> "pw"], outcome |-> "True"]
    /\ done[1][2] = [call |-> [op |-> "register_user", username |-> "bob",
                               password |-> "1234"], outcome |-> "False"]
    /\ done[1][3] = [call |-> [op |-> "verify_login", username |-> "bob",
                               password |-> "pw"], outcome |-> "True"]

\* admin was refused a registration with 'pw'; '1234' verifies after it
C30_AdminWitness ==
    /\ CallOver
    /\ Len(done[1]) = 2
    /\ done[1][1] = [call |-> [op |-> "register_user", username |-> "admin",
                               password |-> "pw"], outcome |-> "False"]
    /\ done[1][2] = [call |-> [op |-> "verify_login", username |-> "admin",
                               password |-> "1234"], outcome |-> "True"]

(***************************************************************************)
(* preprocess_store_sales of data_handler.py                               *)
(*                                                                         *)
(* What the caller passes is [kind, columns, rows]: kind is the Python     *)
(* type of the object (a DataFrame, or the file object or the path the     *)
(* tests pass), columns the column names of the table it holds, rows its   *)
(* rows, each a sequence of cells in the order of the columns.  A cell is  *)
(* [na, ok, v]: missing or not, convertible (to a date, to a number) or    *)
(* not, and the day number or the number it converts to.                   *)
(***************************************************************************)
MaxUploadRows == 2   \* most rows of the table passed

Value(v) == [na |-> FALSE, ok |-> TRUE, v |-> v]

\* a text that is neither a date nor a number
Words == [na |-> FALSE, ok |-> FALSE, v |-> 0]

\* NaN, NaT, None
NA == [na |-> TRUE, ok |-> FALSE, v |-> 0]

\* line 46: .str.strip().str.lower().str.replace(" ", "_"), of the column
\* names of the model
NormalizeName(name) ==
    CASE name = "Order Date" -> "order_date"
      [] name = " Amount"    -> "amount"
      [] OTHER               -> name

\* line 50: "date" in col or "order_date" in col or "year" in col, of the
\* normalized names of the model
HasDateWord(col) == col \in {"date", "order_date", "year"}

\* lines 49-52: the first column with such a name is renamed to 'date'
RenameFirstDateColumn(columns) ==
    IF \E k \in 1..Len(columns) : HasDateWord(columns[k])
    THEN LET first == CHOOSE k \in 1..Len(columns) :
                          /\ HasDateWord(columns[k])
                          /\ \A j \in 1..(k - 1) : ~HasDateWord(columns[j])
         IN  [columns EXCEPT ![first] = "date"]
    ELSE columns

\* the places of the columns of a name
ColumnsNamed(columns, name) == {k \in 1..Len(columns) : columns[k] = name}

\* errors="coerce" of pd.to_datetime and pd.to_numeric
Coerce(cell) == IF cell.ok THEN cell ELSE NA

\* the column at place k converted
CoerceColumn(rows, k) ==
    [r \in 1..Len(rows) |-> [rows[r] EXCEPT ![k] = Coerce(@)]]

\* dropna(subset=...): the rows with no missing cell at the places
DropNa(rows, places) ==
    SelectSeq(rows, LAMBDA row : \A k \in places : ~row[k].na)

RECURSIVE InsertByDate(_, _, _)
\* the row put after the rows of sorted whose date is not later
InsertByDate(sorted, row, k) ==
    IF sorted = <<>> THEN <<row>>
    ELSE IF Head(sorted)[k].v <= row[k].v
         THEN <<Head(sorted)>> \o InsertByDate(Tail(sorted), row, k)
         ELSE <<row>> \o sorted

RECURSIVE SortByDate(_, _)
\* line 63: sort_values("date"), rows of the same date in their order
SortByDate(rows, k) ==
    IF rows = <<>> THEN <<>>
    ELSE InsertByDate(SortByDate(SubSeq(rows, 1, Len(rows) - 1), k),
                      rows[Len(rows)], k)

RECURSIVE CoerceNumeric(_, _, _)
\* lines 66-68, one name of the columns to convert after the other
CoerceNumeric(columns, rows, names) ==
    IF names = <<>> THEN rows
    ELSE LET places == ColumnsNamed(columns, Head(names))
             done_rows == IF places = {} THEN rows
                          ELSE CoerceColumn(rows, CHOOSE k \in places : TRUE)
         IN  CoerceNumeric(columns, done_rows, Tail(names))

Raise(type) == [raised |-> type, frame |-> NoFrame]

\* lines 45-73: the body of the try block, and the exception that ends it
\* if one does
TryBlock(df) ==
    IF df.kind # "DataFrame"
    THEN Raise("AttributeError")
    ELSE LET normalized == [k \in 1..Len(df.columns) |->
                               NormalizeName(df.columns[k])]
             columns    == RenameFirstDateColumn(normalized)
             dates      == ColumnsNamed(columns, "date")
         IN  IF dates = {}
             THEN Raise("ValueError")
             ELSE IF Cardinality(dates) > 1
             THEN Raise("ValueError")
             ELSE LET date_col == CHOOSE k \in dates : TRUE
                      converted == CoerceColumn(df.rows, date_col)
                      dated     == DropNa(converted, {date_col})
                      sorted    == SortByDate(dated, date_col)
                      numeric   == CoerceNumeric(columns, sorted,
                                       <<"amount", "sales", "global_sales">>)
                      clean     == DropNa(numeric, 1..Len(columns))
                  IN  [raised |-> "",
                       frame |-> [columns |-> columns, rows |-> clean]]

\* lines 43-76: `except Exception` turns every exception into ValueError
preprocess_store_sales(df) ==
    LET out == TryBlock(df)
    IN  IF out.raised # "" THEN Raise("ValueError") ELSE out

\* the whole call
PreprocessStoreSales ==
    /\ prep_pc = "call"
    /\ prep_out' = preprocess_store_sales(prep_df)
    /\ prep_pc' = IF prep_out'.raised = "" THEN "returned" ELSE "raised"
    /\ UNCHANGED prep_df
    /\ UNCHANGED <<rollVars, invVars, anomVars, slowVars, filtVars, planVars,
                   authVars>>

NextPrep == PreprocessStoreSales

(***************************************************************************)
(* The inputs of preprocess_store_sales                                    *)
(***************************************************************************)
\* the column names of the tables of the model
ColumnLists ==
    {<<"date", "amount">>, <<"Order Date", " Amount">>,
     <<"date", "amount", "note">>, <<"year", "date", "amount">>,
     <<"amount", "note">>}

\* what a cell of a column can hold
CellsOf(name) ==
    CASE name \in {"date", "Order Date"} -> {Value(1), Value(2), Words, NA}
      [] name \in {"amount", " Amount"}  -> {Value(100), Value(150), Words, NA}
      [] name = "year"                   -> {Value(2023)}
      [] OTHER                           -> {Words, NA}

RowsOf(columns) ==
    {row \in [1..Len(columns) -> {Value(1), Value(2), Value(100), Value(150),
                                  Value(2023), Words, NA}] :
        \A k \in 1..Len(columns) : row[k] \in CellsOf(columns[k])}

TablesOf(columns) ==
    UNION {[1..n -> RowsOf(columns)] : n \in 0..MaxUploadRows}

\* a DataFrame, as app.py passes; the StringIO of the CSV text or the open
\* Excel file, as the tests pass; the path of a file, as the third test
InitPrep ==
    /\ \/ \E kind \in {"DataFrame", "StringIO", "BufferedReader"},
             columns \in ColumnLists :
              \E rows \in TablesOf(columns) :
                  prep_df = [kind |-> kind, columns |-> columns, rows |-> rows]
       \/ prep_df = [kind |-> "str", columns |-> <<>>, rows |-> <<>>]
    /\ prep_pc = "call"
    /\ prep_out = [raised |-> "", frame |-> NoFrame]
    /\ RollIdle
    /\ InvIdle
    /\ AnomIdle
    /\ SlowIdle
    /\ FiltIdle
    /\ PlanIdle
    /\ AuthIdle

SpecPrep == InitPrep /\ [][NextPrep]_vars

(***************************************************************************)
(* Claims about preprocess_store_sales                                     *)
(***************************************************************************)
\* the place of the column of the name in the table passed
PlaceOf(columns, name) == CHOOSE k \in 1..Len(columns) : columns[k] = name

RECURSIVE SumColumn(_, _)
SumColumn(rows, k) ==
    IF rows = <<>> THEN 0 ELSE Head(rows)[k].v + SumColumn(Tail(rows), k)

\* the table passed has a 'date' and an 'amount' column, and every row a
\* date and a number in them
DatesAndAmountsGood ==
    /\ prep_df.kind \in {"DataFrame", "StringIO", "BufferedReader"}
    /\ ColumnsNamed(prep_df.columns, "date") # {}
    /\ ColumnsNamed(prep_df.columns, "amount") # {}
    /\ \A r \in 1..Len(prep_df.rows) :
          /\ prep_df.rows[r][PlaceOf(prep_df.columns, "date")].ok
          /\ prep_df.rows[r][PlaceOf(prep_df.columns, "amount")].ok

\* the table returned has the columns and as many rows, of the same total
EveryRowReturned ==
    /\ prep_pc = "returned"
    /\ ColumnsNamed(prep_out.frame.columns, "date") # {}
    /\ ColumnsNamed(prep_out.frame.columns, "amount") # {}
    /\ Len(prep_out.frame.rows) = Len(prep_df.rows)
    /\ SumColumn(prep_out.frame.rows, PlaceOf(prep_out.frame.columns, "amount"))
           = SumColumn(prep_df.rows, PlaceOf(prep_df.columns, "amount"))

\* C26: of an upload, passed as the tests pass it or as a DataFrame, with a
\* 'date' and an 'amount' column whose rows all hold a date and a number,
\* preprocess_store_sales returns a table with these columns and every row,
\* the total of 'amount' unchanged; what it raises is ValueError.
C26_EveryRowKept ==
    prep_pc # "call" =>
        /\ DatesAndAmountsGood => EveryRowReturned
        /\ prep_pc = "raised" => prep_out.raised = "ValueError"

\* the CSV text of test_preprocess_csv, passed as the test passes it: the
\* call raises ValueError
C26_TestUploadRaises ==
    /\ prep_pc = "raised"
    /\ prep_out.raised = "ValueError"
    /\ prep_df = [kind |-> "StringIO", columns |-> <<"date", "amount">>,
                  rows |-> << <<Value(1), Value(100)>>,
                              <<Value(2), Value(150)>> >>]

\* a DataFrame of two good rows, one without a note: one row is returned
C26_RowWithoutNoteDropped ==
    /\ prep_pc = "returned"
    /\ prep_df = [kind |-> "DataFrame", columns |-> <<"date", "amount", "note">>,
                  rows |-> << <<Value(1), Value(100), Words>>,
                              <<Value(2), Value(150), NA>> >>]
    /\ prep_out.frame.rows = << <<Value(1), Value(100), Words>> >>

\* of a DataFrame with the columns 'date' and 'amount' alone the claim holds
C26_FrameOfTwoColumns ==
    (/\ prep_pc # "call"
     /\ prep_df.kind = "DataFrame"
     /\ prep_df.columns = <<"date", "amount">>
     /\ DatesAndAmountsGood) => EveryRowReturned

\* the DataFrame of the rows of test_preprocess_csv, later day first, is
\* returned whole and sorted
C26_FrameReturned ==
    /\ prep_pc = "returned"
    /\ prep_df = [kind |-> "DataFrame", columns |-> <<"date", "amount">>,
                  rows |-> << <<Value(2), Value(150)>>,
                              <<Value(1), Value(100)>> >>]
    /\ prep_out.frame.rows = << <<Value(1), Value(100)>>,
                                <<Value(2), Value(150)>> >>

====
